---- MODULE Spec2Model ----
(***************************************************************************)
(* Convective-source reconstruction along backward trajectories            *)
(* (STC-back/convsrc2Back.py): the grid rasterizer line(), the time-slice  *)
(* generator get_slice_part(), the termination handlers exiter() and       *)
(* radada(), the erosion engine detrainer() and the hourly run loop of     *)
(* main().                                                                 *)
(***************************************************************************)
EXTENDS Integers, Sequences, FiniteSets, TLC

\* ------------------------------------------------------------------------
\* Grid rasterizer: line(x0, y0, x1, y1)
\* ------------------------------------------------------------------------

\* Rows of the buffer `points` that line() allocates.
LineBuf == 40

\* Largest cell coordinate of the dense block of rasterizer inputs.
MaxCell == 3

Abs(n) == IF n < 0 THEN -n ELSE n

Max2(a, b) == IF a >= b THEN a ELSE b

Min2(a, b) == IF a <= b THEN a ELSE b

\* The loop of the branch dx > dy: one point per column, y stepped when the
\* error term turns negative.  pts is the buffer filled so far (pts[k] is
\* row k-1 of `points`).
RECURSIVE LineLoopX(_, _, _, _, _, _, _, _, _)
LineLoopX(x, y, err, pts, x1, dx2, dy2, sx, sy) ==
    IF x = x1 THEN [pts |-> pts, x |-> x, y |-> y]
    ELSE LET e1 == err - dy2
         IN  LineLoopX(x + sx,
                       IF e1 < 0 THEN y + sy ELSE y,
                       IF e1 < 0 THEN e1 + dx2 ELSE e1,
                       Append(pts, <<x, y>>), x1, dx2, dy2, sx, sy)

\* The loop of the branch dx <= dy: one point per row.
RECURSIVE LineLoopY(_, _, _, _, _, _, _, _, _)
LineLoopY(x, y, err, pts, y1, dx2, dy2, sx, sy) ==
    IF y = y1 THEN [pts |-> pts, x |-> x, y |-> y]
    ELSE LET e1 == err - dx2
         IN  LineLoopY(IF e1 < 0 THEN x + sx ELSE x,
                       y + sy,
                       IF e1 < 0 THEN e1 + dy2 ELSE e1,
                       Append(pts, <<x, y>>), y1, dx2, dy2, sx, sy)

\* The points line() writes, in the order it writes them (row k of `points`
\* is pts[k+1]), with the position (x, y) of the walk when the loop ends.
LineWalk(x0, y0, x1, y1) ==
    IF x0 = x1 /\ y0 = y1 THEN [pts |-> <<<<x0, y0>>>>, x |-> x0, y |-> y0]
    ELSE LET dx  == Abs(x1 - x0)
             dy  == Abs(y1 - y0)
             sx  == IF x0 < x1 THEN 1 ELSE -1
             sy  == IF y0 < y1 THEN 1 ELSE -1
             r   == IF dx > dy
                    THEN LineLoopX(x0, y0, dx, <<>>, x1, 2 * dx, 2 * dy, sx, sy)
                    ELSE LineLoopY(x0, y0, dy, <<>>, y1, 2 * dx, 2 * dy, sx, sy)
         IN  [pts |-> Append(r.pts, <<x1, y1>>), x |-> r.x, y |-> r.y]

\* points[:i+1]: the slice stops at the last row of the buffer.
line(x0, y0, x1, y1) ==
    LET w == LineWalk(x0, y0, x1, y1).pts
    IN  SubSeq(w, 1, Min2(Len(w), LineBuf))

\* ------------------------------------------------------------------------
\* Time-slice generator: get_slice_part
\* ------------------------------------------------------------------------
\* Dates are integer hours; dstep and slice_width are hours; itime is in
\* seconds.  A snapshot (partante, partpost) is [itime, recs] with recs the
\* sequence of the parcels' records [idx_back, x, y, p, t] in file order;
\* x, y are degrees, p is Pa.  Every position of a window is stored as its
\* numerator over dstep: the value v is held as v * dstep, so that the
\* interpolation coefai*a + coefpi*p with coefai = (ti-tp)/dstep and
\* coefpi = (ta-ti)/dstep is (ti-tp)*a + (ta-ti)*p, an integer.

\* The value of dat['ti'] and dat['tf'] when no parcel is live.
None == -999999

\* s[m]: the entries of s at the positions where the mask m is TRUE.
RECURSIVE SelFrom(_, _, _)
SelFrom(s, m, k) ==
    IF k > Len(s) \/ k > Len(m) THEN <<>>
    ELSE IF m[k] THEN <<s[k]>> \o SelFrom(s, m, k + 1)
         ELSE SelFrom(s, m, k + 1)

Sel(s, m) == SelFrom(s, m, 1)

\* m.sum()
RECURSIVE MaskSumFrom(_, _)
MaskSumFrom(m, k) ==
    IF k > Len(m) THEN 0 ELSE (IF m[k] THEN 1 ELSE 0) + MaskSumFrom(m, k + 1)

MaskSum(m) == MaskSumFrom(m, 1)

\* np.clip
Clip(v, lo, hi) == Max2(lo, Min2(v, hi))

\* The dictionary dat before the first slice.
EmptyDat ==
    [ti |-> None, tf |-> None, itime |-> 0, idx_back |-> <<>>,
     xi |-> <<>>, yi |-> <<>>, pi |-> <<>>, tempi |-> <<>>,
     xf |-> <<>>, yf |-> <<>>, pf |-> <<>>, tempf |-> <<>>]

\* A generator that holds one slice fewer than dstep/slice_width.
GspNewShort(part_a, part_p, live_a, live_p, current_date, dstep, slice_width) ==
    [part_a |-> part_a, part_p |-> part_p, live_a |-> live_a, live_p |-> live_p,
     dstep |-> dstep, slice_width |-> slice_width,
     nb_slices |-> dstep \div slice_width - 1,
     ta |-> current_date + dstep, tp |-> current_date,
     tf |-> current_date + dstep,
     empty_live |-> (MaskSum(live_a) = 0),
     itime |-> part_p.itime,
     coefai |-> 0, coefpi |-> 0,
     i |-> 0, dat |-> EmptyDat]

\* The generator object right after get_slice_part(...) is called: nothing
\* of its body has run yet, the arguments are bound.  coefai and coefpi are
\* the locals of the frame, as numerators over dstep.
GspNew(part_a, part_p, live_a, live_p, current_date, dstep, slice_width) ==
    [part_a |-> part_a, part_p |-> part_p, live_a |-> live_a, live_p |-> live_p,
     dstep |-> dstep, slice_width |-> slice_width,
     nb_slices |-> dstep \div slice_width,
     ta |-> current_date + dstep, tp |-> current_date,
     tf |-> current_date + dstep,
     empty_live |-> (MaskSum(live_a) = 0),
     itime |-> part_p.itime,
     coefai |-> 0, coefpi |-> 0,
     i |-> 0, dat |-> EmptyDat]

\* part[fld][live]
Field(part, live, fld) ==
    LET a == Sel(part.recs, live)
    IN  [k \in 1..Len(a) |-> a[k][fld]]

\* coefai*a + coefpi*p, element by element, as numerators over dstep.
Interp(ca, cp, a, p) == [k \in 1..Len(a) |-> ca * a[k] + cp * p[k]]

\* A snapshot value v as the numerator v*dstep.
Scaled(a, dstep) == [k \in 1..Len(a) |-> a[k] * dstep]

\* np.clip(v, lo, hi) on numerators over dstep.
ClipSeqNone(v, lo, hi, dstep) == v

ClipSeq(v, lo, hi, dstep) ==
    [k \in 1..Len(v) |-> Clip(v[k], lo * dstep, hi * dstep)]

\* coefai = (ti-tp)/dstep and coefpi = (ta-ti)/dstep, as numerators.
CoefaiExtra(g, ti) == ti - g.tp + 1

Coefai(g, ti) == ti - g.tp

Coefpi(g, ti) == g.ta - ti

\* The end point of the first window taken from the older snapshot.
EndOfFirstFromPost(g, fld) == Scaled(Field(g.part_p, g.live_p, fld), g.dstep)

\* The end point (xf, yf, pf, tempf) of the first window: the snapshot at ta.
EndOfFirst(g, fld) == Scaled(Field(g.part_a, g.live_a, fld), g.dstep)

\* The start point (xi, yi, pi, tempi) of the last window: the snapshot at tp.
StartOfLast(g, fld) == Scaled(Field(g.part_p, g.live_p, fld), g.dstep)

\* The interpolated start point of the other windows.
StartOf(g, ti, fld) ==
    Interp(Coefai(g, ti), Coefpi(g, ti),
           Field(g.part_a, g.live_a, fld), Field(g.part_p, g.live_p, fld))

\* The window filled by one pass of the loop body for the live parcels.
SliceDat(g, ti, itime) ==
    LET base == [g.dat EXCEPT !.ti = ti, !.tf = g.tf, !.itime = itime]
        ends == IF g.i = 0
                THEN [base EXCEPT
                        !.idx_back = Field(g.part_a, g.live_a, "idx_back"),
                        !.xf = ClipSeq(EndOfFirst(g, "x"), -10, 160, g.dstep),
                        !.yf = ClipSeq(EndOfFirst(g, "y"), 0, 50, g.dstep),
                        !.pf = EndOfFirst(g, "p"),
                        !.tempf = EndOfFirst(g, "t")]
                ELSE [base EXCEPT
                        !.xf = g.dat.xi, !.yf = g.dat.yi,
                        !.pf = g.dat.pi, !.tempf = g.dat.tempi]
    IN  IF g.i # 0 /\ g.i = g.nb_slices - 1
        THEN [ends EXCEPT
                !.xi = ClipSeq(StartOfLast(g, "x"), -10, 160, g.dstep),
                !.yi = ClipSeq(StartOfLast(g, "y"), 0, 50, g.dstep),
                !.pi = StartOfLast(g, "p"),
                !.tempi = StartOfLast(g, "t")]
        ELSE [ends EXCEPT
                !.xi = ClipSeq(StartOf(g, ti, "x"), -10, 160, g.dstep),
                !.yi = ClipSeq(StartOf(g, ti, "y"), 0, 50, g.dstep),
                !.pi = StartOf(g, ti, "p"),
                !.tempi = StartOf(g, ti, "t")]

\* next(gsp) while the generator has a slice left: one pass of the loop
\* body up to the yield.  The yielded window is the field dat.
GspStepNoSentinel(g) ==
    LET ti    == g.tf - g.slice_width
        itime == g.itime - g.slice_width * 3600
    IN  [g EXCEPT !.dat = SliceDat(g, ti, itime), !.itime = itime,
                  !.coefai = Coefai(g, ti), !.coefpi = Coefpi(g, ti),
                  !.tf = g.tf - g.slice_width, !.i = g.i + 1]

GspStep(g) ==
    LET ti    == g.tf - g.slice_width
        itime == g.itime - g.slice_width * 3600
        dat   == IF g.empty_live
                 THEN [EmptyDat EXCEPT !.itime = itime]
                 ELSE SliceDat(g, ti, itime)
    IN  [g EXCEPT !.dat = dat, !.itime = itime,
                  !.coefai = Coefai(g, ti), !.coefpi = Coefpi(g, ti),
                  !.tf = g.tf - g.slice_width, !.i = g.i + 1]

\* ------------------------------------------------------------------------
\* Parameters of main() and the external data it reads
\* ------------------------------------------------------------------------

I_DEAD == 2097152

I_HIT == 4194304

I_OLD == 8388608

I_CROSSED == 33554432

I_DBORNE == 16777216

I_STOP == I_HIT + I_DEAD

lowpcut == 3000

highpcut == 50000

IDX_ORGN == 0

\* Hours between two outputs of the trajectory model (6 in main(); the run
\* loop is modelled with a shorter output step, get_slice_part is also
\* checked on its own with dstep up to 6).
step == 2

\* Width of a slice in hours.
slice_width == 1

nb_slices == step \div slice_width

\* Number of output steps of the run: hmax = MaxHour * step.
MaxHour == 2

hmax == MaxHour * step

\* Parcels launched per time slot (8500 in main()).
granule_size == 1

\* Time slots per output step: one per hour here, four per hour in main().
granule_step == step * 1

granule_quanta == granule_size * granule_step

\* Number of 6-hour release quanta after the first granule.
NbQuanta == 2

\* part0['numpart']: the first granule and NbQuanta release quanta.
numpart == granule_size + NbQuanta * granule_quanta

\* (age_bound - 0.25) * 86400 / 3600: the age limit in hours (1050 in
\* main(), where age_bound = 44 days).
age_limit == 1

\* domain = [[-10, 160], [0, 50]]; rr[k][j] of exiter is domain[k+1][j+1].
domain == <<<<-10, 160>>, <<0, 50>>>>

\* Geometry of the ERA5 field and of prod0['source'] (rea = 'ERA5'): the
\* grid starts at (Lo1, La1) degrees with cells of 1/InvD degree.
Lo1 == -10

La1 == 0

InvD == 4

nlon == 681

nlat == 201

xshift == 0

yshift == 0

\* len(mm['regcode']): pl has one more entry.
NbReg == 2

\* The powers of two of the bit positions of a flag word.
Pow2 == [k \in 0..30 |-> 2^k]

\* The bit positions set in the non-negative integer n.
Bits(n) == {k \in DOMAIN Pow2 : (n \div Pow2[k]) % 2 = 1}

\* A flag word is held as the set of its bits: f | n and f & n.
BitOr(f, n) == f \cup Bits(n)

BitAnd(f, n) == f \cap Bits(n)

\* The ids of the table: idx_back - IDX_ORGN is the row of a parcel.
Ids == 0 .. (numpart - 1)

\* part0['ir_start']: launch time in seconds (0 for the first granule, one
\* slot earlier for each following granule).
ir_start(id) ==
    IF id < granule_size THEN 0
    ELSE -3600 * ((id - granule_size) \div granule_size + 1)
         * (step \div granule_step)

\* part0['flag']: the launch flags, clean of I_HIT, I_DEAD, I_CROSSED.
LaunchFlag(id) == Bits(1 + 2 * (id % 2))

\* The places a parcel may be recorded at, [x, y, p, t] in degrees, Pa, K:
\* the first one is its launch position part0[x, y, p, t].
Places(id) ==
    CASE id % 3 = 0 ->
           <<[x |-> 27, y |-> 20, p |-> 10000, t |-> 200],
             [x |-> 29, y |-> 20, p |-> 10000, t |-> 205],
             [x |-> 29, y |-> 20, p |-> 70000, t |-> 270]>>
      [] id % 3 = 1 ->
           <<[x |-> -9, y |-> 20, p |-> 10000, t |-> 200],
             [x |-> -11, y |-> 21, p |-> 2990, t |-> 190]>>
      [] OTHER ->
           <<[x |-> 40, y |-> 2, p |-> 10000, t |-> 200],
             [x |-> 41, y |-> 4, p |-> 30000, t |-> 230],
             [x |-> 41, y |-> 4, p |-> 46000, t |-> 250]>>

part0(id) == Places(id)[1]

\* The ids a snapshot may hold; the other parcels of the table never appear.
Observable == {0, 1, 2}

\* datrean.var['UDR'][h, y, x] in units of detr_offset = 1/(100*3600) per
\* second, on two hybrid levels: nothing west of 27E but noise of either
\* sign, exactly the offset up to 28E, strong detrainment east of it; the
\* upper level carries half of it.  A negative h counts from the last level
\* (udr[-1] is udr[1]).
UDR(h, y, x) ==
    LET low == IF x >= 152 THEN 130
               ELSE IF x >= 146 THEN 1
               ELSE IF x % 2 = 1 THEN -1 ELSE 0
    IN  IF h = 0 THEN low ELSE IF low > 1 THEN low \div 2 ELSE 0

\* detr_offset in the units of UDR.
detr_offset == 1

\* mask[ym, xm]: the region code of a cell.
mask(ym, xm) == IF xm < 150 THEN 1 ELSE 2

\* floor(fhyb(lsig, lsp) + 0.5) - levs[0] over a flat surface at p0: the
\* index of the hybrid level nearest to the pressure pmid2/(2*dstep), above
\* the ceiling of 100 when the parcel is below the lowest retained level,
\* below 0 when it is above the first retained level (rank levs[0]).
fhyb(pmid2, dstep) ==
    IF pmid2 >= 2 * dstep * 40000 THEN 105
    ELSE IF pmid2 >= 2 * dstep * 20000 THEN 1
    ELSE IF pmid2 >= 2 * dstep * 5000 THEN 0 ELSE -1


\* ------------------------------------------------------------------------
\* Reading the reanalysis: class ECMWF and read_ECMWF
\* ------------------------------------------------------------------------

\* Largest number of records select() finds for a variable.
MaxLev == 2

\* The files of one date: whether the EN file and the DI file open, and
\* the number of records each holds for T and for UDR (0: select() finds
\* none and raises).
ReaFiles == [en : BOOLEAN, di : BOOLEAN, nT : 0..MaxLev, nUDR : 0..MaxLev]

NoFiles == [en |-> FALSE, di |-> FALSE, nT |-> 0, nUDR |-> 0]

\* An ECMWF object as ECMWF_pure.__init__ leaves it: the keys of attr and
\* of var, whether self.grb exists, nlev, DI_open; raised tells that an
\* exception left the last call made on it.
NoDat == [grb |-> FALSE, attr |-> {}, var |-> {}, nlev |-> 0,
          DI_open |-> FALSE, raised |-> FALSE]

\* ECMWF('STC', date): when the EN file does not open the constructor
\* prints and returns; otherwise the grid and SP are read from the surface
\* pressure message and the DI file is opened, or not.
ECMWF(f) ==
    IF ~f.en THEN NoDat
    ELSE [grb |-> TRUE,
          attr |-> {"lons", "lats", "Lo1", "Lo2", "La1", "La2", "am", "bm"},
          var |-> {"SP"}, nlev |-> 0, DI_open |-> f.di, raised |-> FALSE]

\* _get_var with the test on the number of records left out.
_get_varAnyCount(d, v, f) ==
    LET TT == IF v = "T" THEN f.nT ELSE f.nUDR
    IN  IF v \in d.var THEN d
        ELSE IF ~d.grb \/ (d.DI_open /\ TT = 0) \/ (v = "T" /\ TT = 0) THEN d
        ELSE IF v = "UDR" /\ ~d.DI_open THEN [d EXCEPT !.raised = TRUE]
        ELSE IF "levs" \notin d.attr
        THEN [d EXCEPT !.nlev = TT, !.attr = @ \cup {"levs", "plev"},
                       !.var = @ \cup {v}]
        ELSE [d EXCEPT !.var = @ \cup {v}]

\* dat._get_var(var): an exception inside the try (no self.grb, select()
\* finding nothing) is printed and the call returns; a DI variable with the
\* DI file closed leaves TT unbound and len(TT) raises; the first variable
\* read sets nlev and levs; a later one with another number of records is
\* printed as inconsistent and the call returns without setting it.
_get_var(d, v, f) ==
    LET TT == IF v = "T" THEN f.nT ELSE f.nUDR
    IN  IF v \in d.var THEN d
        ELSE IF ~d.grb \/ (d.DI_open /\ TT = 0) \/ (v = "T" /\ TT = 0) THEN d
        ELSE IF v = "UDR" /\ ~d.DI_open THEN [d EXCEPT !.raised = TRUE]
        ELSE IF "levs" \notin d.attr
        THEN [d EXCEPT !.nlev = TT, !.attr = @ \cup {"levs", "plev"},
                       !.var = @ \cup {v}]
        ELSE IF TT # d.nlev THEN d
        ELSE [d EXCEPT !.var = @ \cup {v}]

\* dat._mkp(): needs nlev and attr['levs'].
_mkp(d) ==
    IF "levs" \notin d.attr THEN [d EXCEPT !.raised = TRUE]
    ELSE [d EXCEPT !.var = @ \cup {"P"}]

\* dat._mkrho(): prints and returns when T or P is missing.
_mkrho(d) ==
    IF {"T", "P"} \subseteq d.var THEN [d EXCEPT !.var = @ \cup {"RHO"}]
    ELSE d

\* read_ECMWF(date, 'ERA5'): the object returned, or raised set when a
\* statement of the function raises (a key of attr or var that is missing).
read_ECMWF(f) ==
    LET d1 == _get_var(ECMWF(f), "T", f)
    IN  IF ~({"lons", "lats", "Lo1", "Lo2"} \subseteq d1.attr)
        THEN [d1 EXCEPT !.raised = TRUE]
        ELSE LET d2 == [d1 EXCEPT !.attr = @ \cup {"dlo", "dla"}]
                 d3 == _get_var(d2, "UDR", f)
             IN  IF d3.raised THEN d3
                 ELSE LET d4 == _mkp(d3)
                      IN  IF d4.raised THEN d4
                          ELSE IF {"UDR", "RHO"} \subseteq _mkrho(d4).var
                          THEN _mkrho(d4)
                          ELSE [_mkrho(d4) EXCEPT !.raised = TRUE]

\* ------------------------------------------------------------------------
\* State
\* ------------------------------------------------------------------------

VARIABLES
    pc,           \* position of main(): "read", "deadborne", "exiter",
                  \* "slice", "detrainer", "age", "done" after the loop,
                  \* "save2" between the saves, "end"; "error" after an
                  \* exception
    hour,         \* the loop variable of the main loop
    current_date, \* in hours from sdate
    partStep,     \* the dictionary of retained snapshots, by hour
    kept_a, kept_p, live_a, live_p,
    gsp,          \* the generator of the hour
    islice,       \* the loop variable i of the loop on slices
    hyb,          \* hybrid level of each parcel of the current window
    numpart_s, idx1,
    flag_source,  \* prod0['flag_source'], a set of bits per parcel
    chi,          \* prod0['chi'], held as -log(chi) * EDen
    passed,       \* prod0['passed']
    src,          \* prod0['src']: src[k][i0], k = 0..5
    source,       \* prod0['source'], by cell <<ym, xm>>
    pl,           \* prod0['pl'], by region code
    nhits, nexits, ndborne, nnew, nold, nradada,
    lnargs, lnres,   \* a call of line() and what it wrote
    gprev, gcount,   \* the window yielded before the last one, and how many
    hargs, hcalls,   \* the arguments of a termination handler called on its
                     \* own, and the calls made: <<handler, count returned>>
    saves,           \* the calls of dd.io.save made: [file, ok]
    datrean          \* the files found at the date of the last window
                     \* read, and the object read_ECMWF made of them

runvars == <<pc, hour, current_date, partStep, kept_a, kept_p, live_a, live_p,
             islice, hyb, numpart_s, idx1, flag_source, chi, passed, src,
             source, pl, nhits, nexits, ndborne, nnew, nold, nradada>>

linevars == <<lnargs, lnres>>

slicevars == <<gprev, gcount>>

handlervars == <<hargs, hcalls>>

outvars == <<saves, datrean>>

vars == <<runvars, gsp, linevars, slicevars, handlervars, outvars>>

\* chi is held in log form: the survival fraction of a parcel is
\* exp(-chi[i0] / EDen).  One slice at the rate detr multiplies it by
\* exp(-3600*detr), which adds 3600*detr*EDen; with detr = sum/len in units
\* of 1/(100*3600) the increment is (sum * EDen) / (100 * len), exact for
\* every path of 1 to 10 cells.
EDen == 100 * 2520

\* chi < 0.9, 0.7, 0.5, 0.3, 0.1: -log of the threshold times EDen lies
\* strictly between LogThr[k] and LogThr[k] + 1.
LogThr == <<26550, 89882, 174673, 303401, 580251>>

ChiBelow(e, k) == e > LogThr[k]

\* A sum of terms c * exp(-e / EDen) is held as the function e -> c over
\* the exponents of non-zero coefficient: the exponentials of distinct
\* exponents are linearly independent over the integers, so two sums are
\* equal exactly when they are the same function.
FsZero == [e \in {} |-> 0]

FsCoef(fs, e) == IF e \in DOMAIN fs THEN fs[e] ELSE 0

FsPlus(f, g) ==
    LET d == {e \in DOMAIN f \cup DOMAIN g : FsCoef(f, e) + FsCoef(g, e) # 0}
    IN  [e \in d |-> FsCoef(f, e) + FsCoef(g, e)]

\* exp(-e1/EDen) - exp(-e2/EDen)
FsDiff(e1, e2) ==
    IF e1 = e2 THEN FsZero ELSE [e \in {e1, e2} |-> IF e = e1 THEN 1 ELSE -1]

RECURSIVE FsSum(_, _)
FsSum(f, S) ==
    IF S = {} THEN FsZero
    ELSE LET c == CHOOSE c \in S : TRUE
         IN  FsPlus(f[c], FsSum(f, S \ {c}))

\* One record of prod0['src'] for one parcel; nan marks a slot never
\* written.  Each value is a pair <<numerator, denominator>>.
NaNSlot == [nan |-> TRUE, x |-> <<0, 1>>, y |-> <<0, 1>>, p |-> <<0, 1>>,
            t |-> <<0, 1>>, age |-> <<0, 1>>]

Slot(x, y, p, t, age) == [nan |-> FALSE, x |-> x, y |-> y, p |-> p, t |-> t,
                          age |-> age]

\* The snapshot partStep[0] built from part_000: the first granule.
Snapshot0 ==
    [itime |-> 0,
     recs  |-> [k \in 1..granule_size |->
                  [idx_back |-> k - 1 + IDX_ORGN, x |-> part0(k - 1).x,
                   y |-> part0(k - 1).y, p |-> part0(k - 1).p,
                   t |-> part0(k - 1).t]]]

NoGen == GspNew([itime |-> 0, recs |-> <<>>], [itime |-> 0, recs |-> <<>>],
                <<>>, <<>>, 0, step, slice_width)

\* The state before the main loop for a launch table of the parcels ids.
RunInitOn(ids) ==
    /\ pc = "read"
    /\ hour = step
    /\ current_date = 0
    /\ partStep = [h \in {0} |-> Snapshot0]
    /\ kept_a = <<>> /\ kept_p = <<>> /\ live_a = <<>> /\ live_p = <<>>
    /\ islice = 0
    /\ hyb = <<>>
    /\ numpart_s = granule_size
    /\ idx1 = IDX_ORGN
    /\ flag_source = [i \in ids |-> LaunchFlag(i)]
    /\ chi = [i \in ids |-> 0]
    /\ passed = [i \in ids |-> 10]
    /\ src = [k \in 0..5 |-> [i \in ids |-> NaNSlot]]
    /\ source = [c \in {} |-> FsZero]
    /\ pl = [r \in 0..NbReg |-> FsZero]
    /\ nhits = [k \in 0..5 |-> 0]
    /\ nexits = 0 /\ ndborne = 0 /\ nnew = granule_size /\ nold = 0
    /\ nradada = 0

RunInit == RunInitOn(Ids)

\* No call of line() has returned yet.
LineIdleRes == [pts |-> <<>>, writes |-> 0, x |-> 0, y |-> 0, died |-> FALSE]

LineIdle == lnargs = <<>> /\ lnres = LineIdleRes

SliceIdle == gprev = EmptyDat /\ gcount = 0

\* No termination handler is called on its own.
HandlersIdle == hargs = [itime |-> 0, recs |-> <<>>] /\ hcalls = <<>>

\* Nothing has been saved, no reanalysis has been read.
OutIdle == saves = <<>> /\ datrean = [files |-> NoFiles, dat |-> NoDat]

Init ==
    RunInit /\ gsp = NoGen /\ LineIdle /\ SliceIdle /\ HandlersIdle /\ OutIdle


\* ------------------------------------------------------------------------
\* Termination handlers
\* ------------------------------------------------------------------------

\* int(v / 2) for an integer v: truncation toward zero.
IntHalf(v) == IF v >= 0 THEN v \div 2 ELSE -((-v) \div 2)

\* The exit code exiter gives to a parcel last seen at (x, y, p).
ExCodePressureFirst(x, y, p) ==
    IF p > highpcut - 150 THEN 1
    ELSE IF p < lowpcut + 15 THEN 2
    ELSE IF y < domain[2][1] + 4 THEN 6
    ELSE IF x < domain[1][1] + 4 THEN 3
    ELSE IF y > domain[2][2] - 4 THEN 4
    ELSE IF x > domain[1][2] - 4 THEN 5
    ELSE 7

ExCode(x, y, p) ==
    IF y < domain[2][1] + 4 THEN 6
    ELSE IF x < domain[1][1] + 4 THEN 3
    ELSE IF y > domain[2][2] - 4 THEN 4
    ELSE IF x > domain[1][2] - 4 THEN 5
    ELSE IF p > highpcut - 150 THEN 1
    ELSE IF p < lowpcut + 15 THEN 2
    ELSE 7

\* What a termination handler writes for one parcel that is not DEAD:
\* slot 0 and the flag.  st is [flag, src, n]: the two tables and the count.
Terminate(st, i0, slot, bits) ==
    [st EXCEPT !.n = st.n + 1,
               !.src[0][i0] = slot,
               !.flag[i0] = BitOr(st.flag[i0], bits)]

\* The body of the loop of exiter for the record r.
ExiterNoGuard(st, r, itime) ==
    LET i0 == r.idx_back - IDX_ORGN
    IN  Terminate(st, i0,
                  Slot(<<r.x, 1>>, <<r.y, 1>>, <<r.p, 1>>, <<r.t, 1>>,
                       <<ir_start(i0) - itime, 1>>),
                  ExCode(r.x, r.y, r.p) * 8192 + I_DEAD + I_CROSSED)

ExiterOne(st, r, itime) ==
    LET i0 == r.idx_back - IDX_ORGN
    IN  IF BitAnd(st.flag[i0], I_DEAD) = {}
        THEN Terminate(st, i0,
                       Slot(<<r.x, 1>>, <<r.y, 1>>, <<r.p, 1>>, <<r.t, 1>>,
                            <<ir_start(i0) - itime, 1>>),
                       ExCode(r.x, r.y, r.p) * 8192 + I_DEAD + I_CROSSED)
        ELSE st

RECURSIVE ExiterFrom(_, _, _, _)
ExiterFrom(st, recs, k, itime) ==
    IF k > Len(recs) THEN st
    ELSE ExiterFrom(ExiterOne(st, recs[k], itime), recs, k + 1, itime)

\* exiter(itime, x, y, p, t, idx_back, flag, xc, yc, pc, tc, age, ...): recs
\* holds the parcels passed in; returns the tables and nexits.
exiter(itime, recs, flag, srcs) ==
    ExiterFrom([flag |-> flag, src |-> srcs, n |-> 0], recs, 1, itime)

\* The body of the loop of radada for the k-th selected parcel.
RadadaNoGuard(st, r, itime) ==
    LET i0 == r.idx_back - IDX_ORGN
    IN  Terminate(st, i0,
                  Slot(r.x, r.y, r.p, r.t, <<ir_start(i0) - itime, 1>>),
                  8 * 8192 + I_DEAD + I_CROSSED)

RadadaOne(st, r, itime) ==
    LET i0 == r.idx_back - IDX_ORGN
    IN  IF BitAnd(st.flag[i0], I_DEAD) = {}
        THEN Terminate(st, i0,
                       Slot(r.x, r.y, r.p, r.t, <<ir_start(i0) - itime, 1>>),
                       8 * 8192 + I_DEAD + I_CROSSED)
        ELSE st

RECURSIVE RadadaFrom(_, _, _, _)
RadadaFrom(st, recs, k, itime) ==
    IF k > Len(recs) THEN st
    ELSE RadadaFrom(RadadaOne(st, recs[k], itime), recs, k + 1, itime)

radada(itime, recs, flag, srcs) ==
    RadadaFrom([flag |-> flag, src |-> srcs, n |-> 0], recs, 1, itime)

\* ------------------------------------------------------------------------
\* Detrainment
\* ------------------------------------------------------------------------

\* int(math.floor((x - Lo1)/dlo + 0.5)) for x = n/dstep degrees.
Cell(n, dstep, orig) ==
    (2 * (n - orig * dstep) * InvD + dstep) \div (2 * dstep)

\* The sum of udr[h, ll[j][1], ll[j][0]] over the path ll.
RECURSIVE PathSum(_, _, _)
PathSum(h, ll, j) ==
    IF j > Len(ll) THEN 0
    ELSE UDR(h, ll[j][2], ll[j][1]) + PathSum(h, ll, j + 1)

\* The cell that receives the eroded mass of a path from (xig, yig) to
\* (xfg, yfg).
MidCell(xig, yig, xfg, yfg) ==
    <<Min2(nlat - 1, Max2(0, IntHalf(yig + yfg) + yshift)),
      Min2(nlon - 1, Max2(0, IntHalf(xig + xfg) + xshift))>>

\* acc[c] = amount
DepositSet(acc, c, amount) ==
    [d \in DOMAIN acc \cup {c} |-> IF d = c THEN amount ELSE acc[d]]

\* acc[c] += amount, for an accumulator held on the cells it has received.
Deposit(acc, c, amount) ==
    [d \in DOMAIN acc \cup {c} |->
        FsPlus(IF d \in DOMAIN acc THEN acc[d] ELSE FsZero,
               IF d = c THEN amount ELSE FsZero)]

\* A rung that steps passed down by one.
RungDec(st, i0, k, from, to, slot) ==
    IF st.passed[i0] = from /\ ChiBelow(st.chi[i0], k)
    THEN [st EXCEPT !.src[k][i0] = slot,
                    !.flag[i0] = IF k = 1 THEN BitOr(@, I_HIT) ELSE @,
                    !.passed[i0] = from - 1,
                    !.nhits[k] = @ + 1]
    ELSE st

\* A rung without the test of passed.
RungAgain(st, i0, k, from, to, slot) ==
    IF ChiBelow(st.chi[i0], k)
    THEN [st EXCEPT !.src[k][i0] = slot,
                    !.flag[i0] = IF k = 1 THEN BitOr(@, I_HIT) ELSE @,
                    !.passed[i0] = to,
                    !.nhits[k] = @ + 1]
    ELSE st

\* A first rung that sets I_STOP instead of I_HIT.
RungStop(st, i0, k, from, to, slot) ==
    IF st.passed[i0] = from /\ ChiBelow(st.chi[i0], k)
    THEN [st EXCEPT !.src[k][i0] = slot,
                    !.flag[i0] = IF k = 1 THEN BitOr(@, I_STOP) ELSE @,
                    !.passed[i0] = to,
                    !.nhits[k] = @ + 1]
    ELSE st

\* One rung of the ratchet: when passed is `from` and chi is below the
\* k-th threshold, slot k is archived, passed becomes `to`, nhits[k] is
\* counted; the first rung also sets I_HIT.
Rung(st, i0, k, from, to, slot) ==
    IF st.passed[i0] = from /\ ChiBelow(st.chi[i0], k)
    THEN [st EXCEPT !.src[k][i0] = slot,
                    !.flag[i0] = IF k = 1 THEN BitOr(@, I_HIT) ELSE @,
                    !.passed[i0] = to,
                    !.nhits[k] = @ + 1]
    ELSE st

\* The ratchet as a chain of alternatives: one rung at most in a call.
RatchetOneRung(st, i0, slot) ==
    IF st.passed[i0] = 10 THEN Rung(st, i0, 1, 10, 9, slot)
    ELSE IF st.passed[i0] = 9 THEN Rung(st, i0, 2, 9, 7, slot)
    ELSE IF st.passed[i0] = 7 THEN Rung(st, i0, 3, 7, 5, slot)
    ELSE IF st.passed[i0] = 5 THEN Rung(st, i0, 4, 5, 3, slot)
    ELSE IF st.passed[i0] = 3 THEN Rung(st, i0, 5, 3, 1, slot)
    ELSE st

\* The ratchet: the five rungs one after the other, each one tested on what
\* the one before left.
Ratchet(st, i0, slot) ==
    IF st.passed[i0] > 1
    THEN Rung(Rung(Rung(Rung(Rung(st, i0, 1, 10, 9, slot),
                             i0, 2, 9, 7, slot),
                        i0, 3, 7, 5, slot),
                   i0, 4, 5, 3, slot),
              i0, 5, 3, 1, slot)
    ELSE st

\* The erosion of one parcel whose path carries the detrainment sum/len:
\* newchi, the two deposits, chi, then the ratchet.
Erode(st, i0, sum, len, cell, slot) ==
    LET newchi == st.chi[i0] + (sum * EDen) \div (100 * len)
        lost   == FsDiff(st.chi[i0], newchi)
        st1    == [st EXCEPT
                     !.source = Deposit(@, cell, lost),
                     !.pl = Deposit(@, mask(cell[1], cell[2]), lost),
                     !.chi[i0] = newchi]
    IN  Ratchet(st1, i0, slot)

\* The floor on the detrainment that erodes: detr >= detr_offset.
ErodesAlways(sum, len) == TRUE

ErodesAbove(sum, len) == sum > detr_offset * len

Erodes(sum, len) == sum >= detr_offset * len

\* The body of the loop of detrainer for the k-th parcel of the window d.
DetrainOne(st, d, hy, k, dstep) ==
    LET i0  == d.idx_back[k] - IDX_ORGN
        xig == Cell(d.xi[k], dstep, Lo1)
        yig == Cell(d.yi[k], dstep, La1)
        xfg == Cell(d.xf[k], dstep, Lo1)
        yfg == Cell(d.yf[k], dstep, La1)
        ll  == line(xig, yig, xfg, yfg)
        sum == PathSum(hy[k], ll, 1)
    IN  IF BitAnd(st.flag[i0], I_DEAD) = {} /\ Erodes(sum, Len(ll))
        THEN Erode(st, i0, sum, Len(ll), MidCell(xig, yig, xfg, yfg),
                   Slot(<<d.xi[k], dstep>>, <<d.yi[k], dstep>>,
                        <<d.pi[k], dstep>>, <<d.tempi[k], dstep>>,
                        <<ir_start(i0) - d.itime, 1>>))
        ELSE st

RECURSIVE DetrainFrom(_, _, _, _, _)
DetrainFrom(st, d, hy, k, dstep) ==
    IF k > Len(d.idx_back) THEN st
    ELSE DetrainFrom(DetrainOne(st, d, hy, k, dstep), d, hy, k + 1, dstep)

\* detrainer(...): the tables after the loop and the hit counters nhits of
\* this call.
detrainer(d, hy, dstep, flag, chis, pass, srcs, sourc, pls) ==
    DetrainFrom([flag |-> flag, chi |-> chis, passed |-> pass, src |-> srcs,
                 source |-> sourc, pl |-> pls, nhits |-> [k \in 0..5 |-> 0]],
                d, hy, 1, dstep)


\* ------------------------------------------------------------------------
\* The main loop
\* ------------------------------------------------------------------------

partante == partStep[hour - step]

partpost == partStep[hour]

IdsOf(part) == {part.recs[k].idx_back : k \in 1..Len(part.recs)}

\* np.in1d(a['idx_back'], b['idx_back'])
In1d(a, b) == [k \in 1..Len(a.recs) |-> a.recs[k].idx_back \in IdsOf(b)]

Not(m) == [k \in 1..Len(m) |-> ~m[k]]

\* The records of the ids of S with c[id] the place of each, by growing id.
RECURSIVE SortedRecs(_, _)
SortedRecs(S, c) ==
    IF S = {} THEN <<>>
    ELSE LET id == CHOOSE i \in S : \A j \in S : i <= j
             pl0 == Places(id)[c[id]]
         IN  <<[idx_back |-> id + IDX_ORGN, x |-> pl0.x, y |-> pl0.y,
                p |-> pl0.p, t |-> pl0.t]>> \o SortedRecs(S \ {id}, c)

\* The snapshots readpart107(h, ...) may return after the snapshot prev: a
\* parcel of prev is still there, at one of its places, or has left; a
\* parcel launched in the last output step is there or not; no other
\* parcel is.
Launched(id, h) == -ir_start(id) <= h * 3600

Readable(prev, h) ==
    LET old == IdsOf(prev)
        new == {id \in Observable \cap Ids :
                  Launched(id, h) /\ ~Launched(id, h - step) /\ id \notin old}
    IN  {[itime |-> -3600 * h, recs |-> SortedRecs(S, c)] :
            <<S, c>> \in {<<S, c>> \in (SUBSET (old \cup new))
                                       \X [Observable -> 1..3] :
                            \A id \in Observable :
                               /\ c[id] <= Len(Places(id))
                               /\ id \notin S => c[id] = 1}}

\* No snapshot is deleted.
RetainedAll(ps, h) == DOMAIN ps

\* if hour >= 2*step: del partStep[hour-2*step]
Retained(ps, h) == DOMAIN ps \ {h - 2 * step}

\* Reading the next snapshot: the head of the loop body up to nnew.
ReadSnapshot ==
    /\ pc = "read"
    /\ hour <= hmax
    /\ \E snap \in Readable(partStep[hour - step], hour) :
         LET ps == [h \in Retained(partStep, hour) \cup {hour} |->
                      IF h = hour THEN snap ELSE partStep[h]]
             ka == In1d(ps[hour - step], snap)
             kp == In1d(snap, ps[hour - step])
         IN  /\ partStep' = ps
             /\ kept_a' = ka
             /\ kept_p' = kp
             /\ nnew' = nnew + Len(snap.recs) - MaskSum(kp)
    /\ current_date' = current_date - step
    /\ pc' = "deadborne"
    /\ UNCHANGED <<hour, live_a, live_p, islice, hyb, numpart_s, idx1,
                   flag_source, chi, passed, src, source, pl, nhits, nexits,
                   ndborne, nold, nradada, gsp, linevars, slicevars, handlervars,
                   outvars>>

\* partpost['idx_back'][-granule_quanta:]
LastIds(part, n) ==
    {part.recs[k].idx_back : k \in Max2(1, Len(part.recs) - n + 1)..Len(part.recs)}

\* The ids flagged deadborne at this hour, numpart_s already advanced to ns.
DeadborneIdsFromOrigin(ns) ==
    LET idx_act == IF hour = step THEN IdsOf(partpost)
                   ELSE LastIds(partpost, granule_quanta)
    IN  {i \in IDX_ORGN .. (ns + IDX_ORGN - 1) : i \notin idx_act}

DeadborneIds(ns) ==
    LET idx_act == IF hour = step THEN IdsOf(partpost)
                   ELSE LastIds(partpost, granule_quanta)
    IN  {i \in idx1 .. (ns + IDX_ORGN - 1) : i \notin idx_act}

\* flag | I_DEAD+I_DBORNE
DeadborneFlagSet(f) == Bits(I_DEAD + I_DBORNE)

DeadborneFlag(f) == BitOr(f, I_DEAD + I_DBORNE)

\* part0['numpart'], which is the length of the tables of prod0.
numpart_t == Cardinality(DOMAIN flag_source)

\* Processing of deadborne parcels.  An index of idx_deadborne outside the
\* tables raises IndexError on the first table read with it, numpart_s
\* already advanced: the run stops there.
Deadborne ==
    /\ pc = "deadborne"
    /\ IF numpart_s < numpart_t
       THEN LET ns   == numpart_s + granule_quanta
                dead == {i - IDX_ORGN : i \in DeadborneIds(ns)}
            IN  /\ numpart_s' = ns
                /\ IF dead \subseteq DOMAIN flag_source
                   THEN /\ flag_source' =
                             [i \in DOMAIN flag_source |->
                                IF i \in dead
                                THEN DeadborneFlag(flag_source[i])
                                ELSE flag_source[i]]
                        /\ src' = [src EXCEPT ![0] =
                                     [i \in DOMAIN flag_source |->
                                        IF i \in dead
                                        THEN Slot(<<part0(i).x, 1>>,
                                                  <<part0(i).y, 1>>,
                                                  <<part0(i).p, 1>>,
                                                  <<part0(i).t, 1>>, <<0, 1>>)
                                        ELSE src[0][i]]]
                        /\ ndborne' = ndborne + Cardinality(dead)
                        /\ idx1' = ns + IDX_ORGN
                        /\ pc' = "exiter"
                   ELSE /\ pc' = "error"
                        /\ UNCHANGED <<flag_source, src, ndborne, idx1>>
       ELSE /\ pc' = "exiter"
            /\ UNCHANGED <<numpart_s, flag_source, src, ndborne, idx1>>
    /\ UNCHANGED <<hour, current_date, partStep, kept_a, kept_p, live_a,
                   live_p, islice, hyb, chi, passed, source, pl, nhits,
                   nexits, nnew, nold, nradada, gsp, linevars, slicevars, handlervars,
                   outvars>>

\* (flag_source[part['idx_back'] - IDX_ORGN] & I_DEAD) == 0
NotDeadAll(part, flag) == [k \in 1..Len(part.recs) |-> TRUE]

NotDead(part, flag) ==
    [k \in 1..Len(part.recs) |->
        BitAnd(flag[part.recs[k].idx_back - IDX_ORGN], I_DEAD) = {}]

MaskAnd(m, n) == [k \in 1..Len(m) |-> m[k] /\ n[k]]

\* Processing of crossed parcels, then the live masks and the generator.
Exiter ==
    /\ pc = "exiter"
    /\ LET st == IF Len(kept_a) > 0
                 THEN exiter(IntHalf(partante.itime + partpost.itime),
                             Sel(partante.recs, Not(kept_a)),
                             flag_source, src)
                 ELSE [flag |-> flag_source, src |-> src, n |-> 0]
           la == IF MaskSum(kept_p) = 0 THEN kept_p
                 ELSE MaskAnd(kept_a, NotDead(partante, st.flag))
           lp == IF MaskSum(kept_p) = 0 THEN kept_p
                 ELSE MaskAnd(kept_p, NotDead(partpost, st.flag))
       IN  /\ flag_source' = st.flag
           /\ src' = st.src
           /\ nexits' = nexits + st.n
           /\ live_a' = la
           /\ live_p' = lp
           /\ gsp' = GspNew(partante, partpost, live_a', live_p', current_date,
                            step, slice_width)
    /\ islice' = 0
    /\ pc' = "slice"
    /\ UNCHANGED <<hour, current_date, partStep, kept_a, kept_p, hyb,
                   numpart_s, idx1, chi, passed, source, pl, nhits, ndborne,
                   nnew, nold, nradada, linevars, slicevars, handlervars,
                   outvars>>

\* The loop on slices left after its first pass.
AfterSliceOnce(i) == "age"

\* The loop on slices goes on, or the age limit is checked.
AfterSlice(i) == IF i + 1 < nb_slices THEN "slice" ELSE "age"

\* A slice with no particle: next(gsp), then continue.
SkipSlice ==
    /\ pc = "slice"
    /\ islice < nb_slices
    /\ gsp.i < gsp.nb_slices
    /\ GspStep(gsp).dat.ti = None
    /\ gsp' = GspStep(gsp)
    /\ islice' = islice + 1
    /\ pc' = AfterSlice(islice)
    /\ UNCHANGED <<hour, current_date, partStep, kept_a, kept_p, live_a,
                   live_p, hyb, numpart_s, idx1, flag_source, chi, passed,
                   src, source, pl, nhits, nexits, ndborne, nnew, nold,
                   nradada, linevars, slicevars, handlervars, outvars>>

\* hyb of the parcels of the window d.
HybOf(d, dstep) == [k \in 1..Len(d.idx_back) |-> fhyb(d.pi[k] + d.pf[k], dstep)]

\* The records radada receives: xf, yf, pf, tempf, idx_back where hyb > 100.
GroundedAtStart(d, hy, dstep) ==
    Sel([k \in 1..Len(d.idx_back) |->
            [idx_back |-> d.idx_back[k], x |-> <<d.xi[k], dstep>>,
             y |-> <<d.yi[k], dstep>>, p |-> <<d.pi[k], dstep>>,
             t |-> <<d.tempi[k], dstep>>]],
        [k \in 1..Len(hy) |-> hy[k] > 100])

Grounded(d, hy, dstep) ==
    Sel([k \in 1..Len(d.idx_back) |->
            [idx_back |-> d.idx_back[k], x |-> <<d.xf[k], dstep>>,
             y |-> <<d.yf[k], dstep>>, p |-> <<d.pf[k], dstep>>,
             t |-> <<d.tempf[k], dstep>>]],
        [k \in 1..Len(hy) |-> hy[k] > 100])

\* A slice with particles, first half, on the tables of the run: next(gsp),
\* the hybrid levels, and the parcels too close to the ground.
GroundContactBody ==
    /\ pc = "slice"
    /\ islice < nb_slices
    /\ gsp.i < gsp.nb_slices
    /\ GspStep(gsp).dat.ti # None
    /\ gsp' = GspStep(gsp)
    /\ LET d  == GspStep(gsp).dat
           hy == HybOf(d, gsp.dstep)
           st == IF \E k \in 1..Len(hy) : hy[k] > 100
                 THEN radada(d.itime, Grounded(d, hy, gsp.dstep),
                             flag_source, src)
                 ELSE [flag |-> flag_source, src |-> src, n |-> 0]
       IN  /\ hyb' = hy
           /\ flag_source' = st.flag
           /\ src' = st.src
           /\ nradada' = nradada + st.n
           /\ nhits' = [nhits EXCEPT ![0] = @ + st.n]
    /\ pc' = "detrainer"
    /\ UNCHANGED <<hour, current_date, partStep, kept_a, kept_p, live_a,
                   live_p, islice, numpart_s, idx1, chi, passed, source, pl,
                   nexits, ndborne, nnew, nold, linevars, slicevars,
                   handlervars>>

\* The same with the reanalysis of every date read as the archive holds it.
GroundContact == GroundContactBody /\ UNCHANGED outvars

\* The indices hyb[i] detrainer reads udr[hyb[i], ...] with: those of the
\* parcels of the window that are not DEAD.
SampledLevels(d, hy, flag) ==
    {hy[k] : k \in {j \in 1..Len(d.idx_back) :
                       BitAnd(flag[d.idx_back[j] - IDX_ORGN], I_DEAD) = {}}}

\* A slice with particles, second half: the detrainment.
Detrainer ==
    /\ pc = "detrainer"
    /\ LET st == detrainer(gsp.dat, hyb, gsp.dstep, flag_source, chi, passed,
                           src, source, pl)
       IN  /\ flag_source' = st.flag
           /\ chi' = st.chi
           /\ passed' = st.passed
           /\ src' = st.src
           /\ source' = st.source
           /\ pl' = st.pl
           /\ nhits' = [k \in 0..5 |-> nhits[k] + st.nhits[k]]
    /\ islice' = islice + 1
    /\ pc' = AfterSlice(islice)
    /\ UNCHANGED <<hour, current_date, partStep, kept_a, kept_p, live_a,
                   live_p, hyb, numpart_s, idx1, nexits, ndborne, nnew, nold,
                   nradada, gsp, linevars, slicevars, handlervars, outvars>>

\* IIold_o without the test of I_STOP.
IIold_any ==
    {k \in 1..Len(partante.recs) :
        LET i0 == partante.recs[k].idx_back - IDX_ORGN
        IN  ir_start(i0) - partante.itime > age_limit * 3600}

\* IIold_o: the parcels of partante older than the limit and neither hit
\* nor dead, as positions of partante.
IIold_o ==
    {k \in 1..Len(partante.recs) :
        LET i0 == partante.recs[k].idx_back - IDX_ORGN
        IN  /\ ir_start(i0) - partante.itime > age_limit * 3600
            /\ BitAnd(flag_source[i0], I_STOP) = {}}

\* The age limit, at the end of the loop body.
AgeSweep ==
    /\ pc = "age"
    /\ LET old == {partante.recs[k].idx_back - IDX_ORGN : k \in IIold_o}
           rec(i0) == partante.recs[CHOOSE k \in IIold_o :
                                      partante.recs[k].idx_back - IDX_ORGN = i0]
       IN  /\ flag_source' = [i \in DOMAIN flag_source |->
                                IF i \in old
                                THEN BitOr(flag_source[i], I_DEAD + I_OLD)
                                ELSE flag_source[i]]
           /\ src' = [src EXCEPT ![0] =
                        [i \in DOMAIN flag_source |->
                           IF i \in old
                           THEN Slot(<<rec(i).x, 1>>, <<rec(i).y, 1>>,
                                     <<rec(i).p, 1>>, <<rec(i).t, 1>>,
                                     <<ir_start(i) - partante.itime, 86400>>)
                           ELSE src[0][i]]]
           /\ nold' = nold + Cardinality(old)
    /\ hour' = hour + step
    /\ pc' = IF hour + step <= hmax THEN "read" ELSE "done"
    /\ UNCHANGED <<current_date, partStep, kept_a, kept_p, live_a, live_p,
                   islice, hyb, numpart_s, idx1, chi, passed, source, pl,
                   nhits, nexits, ndborne, nnew, nradada, gsp, linevars,
                   slicevars, handlervars, outvars>>

Next == ReadSnapshot \/ Deadborne \/ Exiter \/ SkipSlice \/ GroundContact
        \/ Detrainer \/ AgeSweep

Spec == Init /\ [][Next]_vars

\* ------------------------------------------------------------------------
\* The output stage, and main() as a whole
\* ------------------------------------------------------------------------

\* The variables of the run other than pc.
tables == <<hour, current_date, partStep, kept_a, kept_p, live_a, live_p,
            islice, hyb, numpart_s, idx1, flag_source, chi, passed, src,
            source, pl, nhits, nexits, ndborne, nnew, nold, nradada>>

\* A first save outside a try: its failure ends main().
SaveFirstUnguarded ==
    /\ pc = "done"
    /\ \E ok \in BOOLEAN :
          /\ saves' = Append(saves, [file |-> "blosc", ok |-> ok])
          /\ pc' = IF ok THEN "save2" ELSE "error"
    /\ UNCHANGED <<tables, gsp, linevars, slicevars, handlervars, datrean>>

\* try: dd.io.save(out_file1, prod0, compression='blosc'), which succeeds
\* or raises; except: the error is printed.
SaveFirst ==
    /\ pc = "done"
    /\ \E ok \in BOOLEAN : saves' = Append(saves, [file |-> "blosc", ok |-> ok])
    /\ pc' = "save2"
    /\ UNCHANGED <<tables, gsp, linevars, slicevars, handlervars, datrean>>

\* try: dd.io.save(out_file, prod0, compression='zlib'); except: the error
\* is printed; then 'completed run' and the return.
SaveSecond ==
    /\ pc = "save2"
    /\ \E ok \in BOOLEAN : saves' = Append(saves, [file |-> "zlib", ok |-> ok])
    /\ pc' = "end"
    /\ UNCHANGED <<tables, gsp, linevars, slicevars, handlervars, datrean>>

\* main() from the loop on the hours to the return.
NextMain == Next \/ SaveFirst \/ SaveSecond

SpecMain == Init /\ [][NextMain]_vars

\* A slice with particles, first half, on an archive whose files may be
\* missing or short: next(gsp), then read_ECMWF, whose exception ends
\* main(), then the hybrid levels and the parcels too close to the ground.
SliceRea ==
    /\ pc = "slice"
    /\ islice < nb_slices
    /\ gsp.i < gsp.nb_slices
    /\ GspStep(gsp).dat.ti # None
    /\ \E f \in ReaFiles :
          /\ datrean' = [files |-> f, dat |-> read_ECMWF(f)]
          /\ IF read_ECMWF(f).raised
             THEN /\ gsp' = GspStep(gsp)
                  /\ pc' = "error"
                  /\ UNCHANGED <<tables, linevars, slicevars, handlervars>>
             ELSE GroundContactBody
    /\ saves' = saves

NextRea == ReadSnapshot \/ Deadborne \/ Exiter \/ SkipSlice \/ SliceRea
           \/ Detrainer \/ AgeSweep \/ SaveFirst \/ SaveSecond

\* main() on an archive whose files may be missing or short.
SpecRea == Init /\ [][NextRea]_vars

\* The run on a launch table that ends one time slot before the end of its
\* last release quantum: numpart is not granule_size plus a whole number of
\* quanta.
ShortInit ==
    /\ RunInitOn(0 .. (numpart - granule_size - 1))
    /\ gsp = NoGen /\ LineIdle /\ SliceIdle /\ HandlersIdle /\ OutIdle

SpecShort == ShortInit /\ [][Next]_vars


\* ------------------------------------------------------------------------
\* line() on its own
\* ------------------------------------------------------------------------

LineCoords == (-1 .. MaxCell) \cup {LineBuf - 1, LineBuf}

\* The arguments of the call are drawn first.
LineInit ==
    /\ RunInit /\ gsp = NoGen /\ SliceIdle /\ HandlersIdle /\ OutIdle
    /\ lnargs \in LineCoords \X LineCoords \X LineCoords \X LineCoords
    /\ lnres = LineIdleRes

\* The call of line(): a write past the last row of the buffer is outside
\* the array (nopython mode checks no bound), and the call may then return
\* its slice of the buffer or die.
LineCall ==
    /\ lnres = LineIdleRes
    /\ LET w == LineWalk(lnargs[1], lnargs[2], lnargs[3], lnargs[4])
       IN  \E died \in (IF Len(w.pts) > LineBuf THEN BOOLEAN ELSE {FALSE}) :
              lnres' = [pts |-> IF died THEN <<>>
                                ELSE line(lnargs[1], lnargs[2], lnargs[3],
                                          lnargs[4]),
                        writes |-> Len(w.pts), x |-> w.x, y |-> w.y,
                        died |-> died]
    /\ UNCHANGED <<runvars, gsp, slicevars, lnargs, handlervars, outvars>>

SpecLine == LineInit /\ [][LineCall]_vars

\* ------------------------------------------------------------------------
\* get_slice_part on its own
\* ------------------------------------------------------------------------

\* Largest output step, in hours, of the intervals sliced.
MaxDstep == 6

\* (dstep, slice_width) of the intervals sliced.
SliceSteps == {<<d, w>> \in (1..MaxDstep) \X {1, 2, 4} : w <= d}

\* Records of the two snapshots sliced, some outside the box.
SlicePlaces ==
    {[x |-> -12, y |-> -1, p |-> 2990, t |-> 190],
     [x |-> 27, y |-> 20, p |-> 10000, t |-> 200],
     [x |-> 161, y |-> 51, p |-> 46000, t |-> 250]}

SliceSnapshots(itime) ==
    {[itime |-> itime,
      recs |-> <<[idx_back |-> 0, x |-> a.x, y |-> a.y, p |-> a.p, t |-> a.t],
                 [idx_back |-> 1, x |-> b.x, y |-> b.y, p |-> b.p, t |-> b.t]>>] :
        a \in SlicePlaces, b \in SlicePlaces}

SliceInit ==
    /\ RunInit /\ LineIdle /\ SliceIdle /\ HandlersIdle /\ OutIdle
    /\ \E dw \in SliceSteps :
         \E pa \in SliceSnapshots(0), pp \in SliceSnapshots(-3600 * dw[1]),
            live \in {<<TRUE, TRUE>>, <<FALSE, TRUE>>, <<FALSE, FALSE>>} :
            gsp = GspNew(pa, pp, live, live, -dw[1], dw[1], dw[2])

\* next(gsp)
Yield ==
    /\ gsp.i < gsp.nb_slices
    /\ gprev' = gsp.dat
    /\ gsp' = GspStep(gsp)
    /\ gcount' = gcount + 1
    /\ UNCHANGED <<runvars, linevars, handlervars, outvars>>

SpecSlice == SliceInit /\ [][Yield]_vars

\* The same generator on snapshots that list the same parcels in different
\* orders: a snapshot is an array of records and nothing in the run loop
\* sorts it.
Reversed(part) ==
    [part EXCEPT !.recs = [k \in 1..Len(part.recs) |->
                              part.recs[Len(part.recs) + 1 - k]]]

\* The live mask of a snapshot when the parcels of S are kept and not DEAD.
LiveOf(part, S) == [k \in 1..Len(part.recs) |-> part.recs[k].idx_back \in S]

OrderInit ==
    /\ RunInit /\ LineIdle /\ SliceIdle /\ HandlersIdle /\ OutIdle
    /\ \E dw \in SliceSteps :
         \E pa \in SliceSnapshots(0), pp0 \in SliceSnapshots(-3600 * dw[1]),
            rev \in BOOLEAN, S \in {{0, 1}, {1}, {}} :
            LET pp == IF rev THEN Reversed(pp0) ELSE pp0
            IN  gsp = GspNew(pa, pp, LiveOf(pa, S), LiveOf(pp, S),
                             -dw[1], dw[1], dw[2])

SpecOrder == OrderInit /\ [][Yield]_vars


\* ------------------------------------------------------------------------
\* exiter and radada on their own: the handlers are called, up to MaxCalls
\* times, with the same parcels, some of them on the limits of the tests of
\* exiter and some already DEAD.
\* ------------------------------------------------------------------------

MaxCalls == 2

\* Last positions of the parcel 0 handed to the handlers: each coordinate
\* on both sides of the limits y = 4, 46, x = -6, 156, p = 49850, 3015.
HandlerPlaces ==
    {[x |-> x, y |-> y, p |-> p, t |-> 200] :
        x \in {-7, -6, 27, 156, 157}, y \in {3, 4, 20, 46, 47},
        p \in {3014, 3015, 10000, 49850, 49851}}

\* The flag and slot 0 of a parcel before the calls: as launched, or
\* terminated by the age limit at its launch position.
HandlerBefore(id) ==
    {[flag |-> LaunchFlag(id), slot |-> NaNSlot],
     [flag |-> BitOr(LaunchFlag(id), I_DEAD + I_OLD),
      slot |-> Slot(<<part0(id).x, 1>>, <<part0(id).y, 1>>,
                    <<part0(id).p, 1>>, <<part0(id).t, 1>>,
                    <<3600 * (age_limit + 1), 1>>)]}

HandlersInit ==
    /\ pc = "exiter" /\ hour = step /\ current_date = 0
    /\ partStep = [h \in {0} |-> Snapshot0]
    /\ kept_a = <<>> /\ kept_p = <<>> /\ live_a = <<>> /\ live_p = <<>>
    /\ islice = 0 /\ hyb = <<>>
    /\ numpart_s = granule_size /\ idx1 = IDX_ORGN
    /\ chi = [i \in Ids |-> 0]
    /\ passed = [i \in Ids |-> 10]
    /\ source = [c \in {} |-> FsZero]
    /\ pl = [r \in 0..NbReg |-> FsZero]
    /\ nhits = [k \in 0..5 |-> 0]
    /\ nexits = 0 /\ ndborne = 0 /\ nnew = granule_size /\ nold = 0
    /\ nradada = 0
    /\ gsp = NoGen /\ LineIdle /\ SliceIdle /\ OutIdle
    /\ hcalls = <<>>
    /\ \E b0 \in HandlerBefore(0), b1 \in HandlerBefore(1) :
          LET b == [i \in Ids |->
                      IF i = 0 THEN b0
                      ELSE IF i = 1 THEN b1
                      ELSE [flag |-> LaunchFlag(i), slot |-> NaNSlot]]
          IN  /\ flag_source = [i \in Ids |-> b[i].flag]
              /\ src = [k \in 0..5 |->
                          [i \in Ids |-> IF k = 0 THEN b[i].slot ELSE NaNSlot]]
    /\ \E a \in HandlerPlaces :
          hargs = [itime |-> -3600,
                   recs |-> <<[idx_back |-> IDX_ORGN, x |-> a.x, y |-> a.y,
                               p |-> a.p, t |-> a.t],
                              [idx_back |-> 1 + IDX_ORGN, x |-> part0(1).x,
                               y |-> part0(1).y, p |-> part0(1).p,
                               t |-> part0(1).t]>>]

\* The records as radada receives them: the end of a window.
AsWindow(recs) ==
    [k \in 1..Len(recs) |->
        [idx_back |-> recs[k].idx_back, x |-> <<recs[k].x, 1>>,
         y |-> <<recs[k].y, 1>>, p |-> <<recs[k].p, 1>>,
         t |-> <<recs[k].t, 1>>]]

\* exits = exiter(itime, x, y, p, t, idx_back, flag_source, src...)
CallExiter ==
    /\ Len(hcalls) < MaxCalls
    /\ LET st == exiter(hargs.itime, hargs.recs, flag_source, src)
       IN  /\ flag_source' = st.flag
           /\ src' = st.src
           /\ nexits' = nexits + st.n
           /\ hcalls' = Append(hcalls, <<"exiter", st.n>>)
    /\ UNCHANGED <<pc, hour, current_date, partStep, kept_a, kept_p, live_a,
                   live_p, islice, hyb, numpart_s, idx1, chi, passed, source,
                   pl, nhits, ndborne, nnew, nold, nradada, gsp, linevars,
                   slicevars, hargs, outvars>>

\* nr = radada(itime, xf, yf, pf, tempf, idx_back, flag_source, src...)
CallRadada ==
    /\ Len(hcalls) < MaxCalls
    /\ LET st == radada(hargs.itime, AsWindow(hargs.recs), flag_source, src)
       IN  /\ flag_source' = st.flag
           /\ src' = st.src
           /\ nradada' = nradada + st.n
           /\ nhits' = [nhits EXCEPT ![0] = @ + st.n]
           /\ hcalls' = Append(hcalls, <<"radada", st.n>>)
    /\ UNCHANGED <<pc, hour, current_date, partStep, kept_a, kept_p, live_a,
                   live_p, islice, hyb, numpart_s, idx1, chi, passed, source,
                   pl, nexits, ndborne, nnew, nold, gsp, linevars, slicevars,
                   hargs, outvars>>

SpecHandlers == HandlersInit /\ [][CallExiter \/ CallRadada]_vars


\* ------------------------------------------------------------------------
\* Properties of the run
\* ------------------------------------------------------------------------

Dead(flag, i) == BitAnd(flag[i], I_DEAD) # {}

\* C1: for every parcel and every step of the run (deadborne detection,
\* exiter, radada, detrainer, age-limit sweep) the flag after the step holds
\* every bit of the flag before the step.
C1_FlagMonotone ==
    [][\A i \in Ids : flag_source[i] \subseteq flag_source'[i]]_vars

\* A parcel whose launch flag has grown twice: hit, then dead.
C1_Witness ==
    \E i \in Ids :
       /\ LaunchFlag(i) # {}
       /\ LaunchFlag(i) \cup Bits(I_HIT + I_DEAD) \subseteq flag_source[i]

\* C2: the survival fraction of every parcel starts at 1, never increases,
\* and stays in (0, 1].  In log form: chi starts at 0, never decreases, and
\* is never negative (exp(-chi/EDen) is positive for every value of chi).
C2_ChiMonotone ==
    /\ \A i \in Ids : chi[i] = 0
    /\ [](\A i \in Ids : chi[i] >= 0)
    /\ [][\A i \in Ids : chi'[i] >= chi[i]]_vars

\* A parcel eroded but still above 0.9, one eroded below 0.1, and one that
\* went through a window and was left whole.
C2_Witness ==
    /\ \E i \in Ids : chi[i] > 0 /\ passed[i] = 10
    /\ \E i \in Ids : chi[i] > LogThr[5]
    /\ \E k \in 1..Len(gsp.dat.idx_back) : chi[gsp.dat.idx_back[k] - IDX_ORGN] = 0

\* C3: the ratchet of every parcel is one of 10, 9, 7, 5, 3, 1 and never
\* increases.
C3_RatchetSteps ==
    /\ [](\A i \in Ids : passed[i] \in {10, 9, 7, 5, 3, 1})
    /\ [][\A i \in Ids : passed'[i] <= passed[i]]_vars

\* Parcels on three different rungs, the last one reached.
C3_Witness ==
    /\ \E i \in Ids : passed[i] = 1
    /\ \E i \in Ids : passed[i] \in {9, 7, 5, 3}
    /\ \E i \in Ids : passed[i] = 10

\* The mass the parcels that are not dead lose in a step.
Lost(flag, chi0, chi1) ==
    FsSum([i \in Ids |-> IF Dead(flag, i) THEN FsZero
                         ELSE FsDiff(chi0[i], chi1[i])], Ids)

\* A step of exiter or of a slice (radada, detrainer) leaves the dead
\* parcels as they are, and either touches no mass at all or deposits the
\* mass the other parcels lose.
HandlerStepKeepsDead ==
    pc \in {"exiter", "slice", "detrainer"} =>
       /\ \A i \in Ids :
             Dead(flag_source, i) =>
                /\ chi'[i] = chi[i]
                /\ passed'[i] = passed[i]
                /\ flag_source'[i] = flag_source[i]
                /\ \A k \in 0..5 : src'[k][i] = src[k][i]
       /\ \/ source' = source /\ pl' = pl /\ chi' = chi
          \/ LET lost == Lost(flag_source, chi, chi')
             IN  /\ FsSum(source', DOMAIN source')
                      = FsPlus(FsSum(source, DOMAIN source), lost)
                 /\ FsSum(pl', DOMAIN pl') = FsPlus(FsSum(pl, DOMAIN pl), lost)

\* C4: once a parcel is DEAD, no call of exiter, radada or detrainer changes
\* its chi, ratchet, flag or slots 0 to 5, and the mass deposited by such a
\* step is the mass lost by the parcels that were not dead, even when the
\* dead parcel is in the windows of the hour.
C4_DeadUntouched == [][HandlerStepKeepsDead]_vars

\* detrainer has gone through a window that holds a dead parcel, eroded
\* before it died, and a live one that it eroded.
C4_Witness ==
    /\ pc \in {"slice", "age"} /\ islice >= 1
    /\ \E k \in 1..Len(gsp.dat.idx_back) :
          LET i == gsp.dat.idx_back[k] - IDX_ORGN
          IN  Dead(flag_source, i) /\ chi[i] > 0
    /\ \E k \in 1..Len(gsp.dat.idx_back) :
          LET i == gsp.dat.idx_back[k] - IDX_ORGN
          IN  ~Dead(flag_source, i) /\ chi[i] > 0

\* The bits that tell why a parcel is dead.
Reasons(f) == f \cap Bits(I_CROSSED + I_OLD + I_DBORNE)

\* A dead parcel has one reason, and slot 0 is filled exactly when dead.
OneReason ==
    \A i \in Ids :
       /\ Cardinality(Reasons(flag_source[i])) <= 1
       /\ Dead(flag_source, i) <=> Reasons(flag_source[i]) # {}
       /\ Dead(flag_source, i) <=> ~src[0][i].nan

\* No step changes the flag or slot 0 of a dead parcel; slot 0 is written
\* only by the step that sets DEAD.
TerminalOnce ==
    \A i \in Ids :
       /\ Dead(flag_source, i) =>
             (flag_source'[i] = flag_source[i] /\ src'[0][i] = src[0][i])
       /\ src'[0][i] # src[0][i] =>
             (~Dead(flag_source, i) /\ Dead(flag_source', i))

\* C5: every parcel receives at most one terminal event: a dead parcel has
\* one reason; no step changes the flag or slot 0 of a parcel that is
\* already dead (so neither the age-limit sweep nor the deadborne detection
\* re-archives or re-flags a parcel that exited); slot 0 is written only by
\* the step that sets DEAD.
C5_OneTerminalEvent == []OneReason /\ [][TerminalOnce]_vars

\* The age-limit sweep has just run over a snapshot that holds a parcel
\* that exited and is older than the limit: it is dead for that one reason.
C5_Witness ==
    /\ pc \in {"read", "done"}
    /\ (hour - 2 * step) \in DOMAIN partStep
    /\ \E k \in 1..Len(partStep[hour - 2 * step].recs) :
          LET i == partStep[hour - 2 * step].recs[k].idx_back - IDX_ORGN
          IN  /\ Reasons(flag_source[i]) = Bits(I_CROSSED)
              /\ ir_start(i) - partStep[hour - 2 * step].itime > age_limit * 3600

\* The mass lost by all the parcels: the sum of 1 - chi.
Eroded == FsSum([i \in Ids |-> FsDiff(0, chi[i])], Ids)

\* C6: the total of source equals the total of pl, and both equal the sum
\* over the parcels of 1 - chi.
C6_MassConserved ==
    /\ FsSum(source, DOMAIN source) = Eroded
    /\ FsSum(pl, DOMAIN pl) = Eroded

\* Two parcels eroded, one of them twice into the same cell.
C6_Witness ==
    /\ Cardinality({i \in Ids : chi[i] > 0}) >= 2
    /\ \E c \in DOMAIN source : Cardinality(DOMAIN source[c]) >= 3

\* ------------------------------------------------------------------------
\* detrainer on its own: the call of the first slice of an hour on a window
\* of two parcels never eroded before, after radada has terminated those
\* of them that are under the lowest level.
\* ------------------------------------------------------------------------

\* Positions of the two parcels in the two snapshots: on cells of high
\* detrainment, on a cell at the floor, under the lowest level, and on a
\* cell with no detrainment.
DetrPlaces ==
    {[x |-> 29, y |-> 20, p |-> 10000, t |-> 205],
     [x |-> 27, y |-> 20, p |-> 10000, t |-> 200],
     [x |-> 29, y |-> 20, p |-> 70000, t |-> 270],
     [x |-> 26, y |-> 20, p |-> 10000, t |-> 200]}

DetrSnapshots(itime) ==
    {[itime |-> itime,
      recs |-> <<[idx_back |-> IDX_ORGN, x |-> a.x, y |-> a.y, p |-> a.p,
                  t |-> a.t],
                 [idx_back |-> 1 + IDX_ORGN, x |-> b.x, y |-> b.y, p |-> b.p,
                  t |-> b.t]>>] :
        a \in DetrPlaces, b \in DetrPlaces}

DetrInit ==
    /\ pc = "detrainer" /\ hour = step /\ current_date = -step
    /\ kept_a = <<TRUE, TRUE>> /\ kept_p = <<TRUE, TRUE>>
    /\ live_a = <<TRUE, TRUE>> /\ live_p = <<TRUE, TRUE>>
    /\ islice = 0
    /\ numpart_s = granule_size + granule_quanta
    /\ idx1 = numpart_s + IDX_ORGN
    /\ chi = [i \in Ids |-> 0]
    /\ passed = [i \in Ids |-> 10]
    /\ source = [c \in {} |-> FsZero]
    /\ pl = [r \in 0..NbReg |-> FsZero]
    /\ nexits = 0 /\ ndborne = 0 /\ nnew = granule_size /\ nold = 0
    /\ LineIdle /\ SliceIdle /\ HandlersIdle /\ OutIdle
    /\ \E pa \in DetrSnapshots(0), pp \in DetrSnapshots(-3600 * step) :
          LET g  == GspStep(GspNew(pa, pp, <<TRUE, TRUE>>, <<TRUE, TRUE>>,
                                   -step, step, slice_width))
              hy == HybOf(g.dat, g.dstep)
              st == radada(g.dat.itime, Grounded(g.dat, hy, g.dstep),
                           [i \in Ids |-> LaunchFlag(i)],
                           [k \in 0..5 |-> [i \in Ids |-> NaNSlot]])
          IN  /\ partStep = [h \in {0, step} |-> IF h = 0 THEN pa ELSE pp]
              /\ gsp = g
              /\ hyb = hy
              /\ flag_source = st.flag
              /\ src = st.src
              /\ nradada = st.n
              /\ nhits = [k \in 0..5 |-> IF k = 0 THEN st.n ELSE 0]

SpecDetr == DetrInit /\ [][Detrainer]_vars

\* ------------------------------------------------------------------------
\* Properties of line()
\* ------------------------------------------------------------------------

LineCalled == lnres.writes > 0

\* Consecutive cells of a path differ by at most 1 in each axis.
Connected(pts) ==
    \A k \in 1..(Len(pts) - 1) :
       /\ Abs(pts[k + 1][1] - pts[k][1]) <= 1
       /\ Abs(pts[k + 1][2] - pts[k][2]) <= 1

\* The path from (x0, y0) to (x1, y1) that the rasterizer is to return.
IsPath(pts, x0, y0, x1, y1) ==
    /\ Len(pts) = Max2(Abs(x1 - x0), Abs(y1 - y0)) + 1
    /\ pts[1] = <<x0, y0>>
    /\ pts[Len(pts)] = <<x1, y1>>
    /\ Connected(pts)
    /\ (x0 = x1 /\ y0 = y1) => pts = <<<<x0, y0>>>>

InGrid(x, y) == x \in 0..(nlon - 1) /\ y \in 0..(nlat - 1)

\* C7: for all integer cell pairs, line(x0, y0, x1, y1) returns a sequence
\* that starts at (x0, y0), ends at (x1, y1), has max(|x1-x0|, |y1-y0|) + 1
\* cells, whose consecutive cells differ by at most 1 in each axis, and that
\* is the single cell when the two cells are equal.
C7_LineReturnsPath ==
    LineCalled =>
       /\ ~lnres.died
       /\ IsPath(lnres.pts, lnargs[1], lnargs[2], lnargs[3], lnargs[4])

\* The part of C7 that line() keeps: whenever the two cells are less than
\* LineBuf apart the returned sequence is the path.
LinePathWithinBuffer ==
    (LineCalled /\ Max2(Abs(lnargs[3] - lnargs[1]),
                        Abs(lnargs[4] - lnargs[2])) < LineBuf) =>
       /\ ~lnres.died
       /\ IsPath(lnres.pts, lnargs[1], lnargs[2], lnargs[3], lnargs[4])

\* C8: for every pair of cells inside the accumulator grid, line() never
\* writes a row outside its buffer of LineBuf rows, and it returns the
\* complete path (every cell it walked, up to (x1, y1)).
C8_LineStaysInBuffer ==
    (LineCalled /\ InGrid(lnargs[1], lnargs[2]) /\ InGrid(lnargs[3], lnargs[4])) =>
       /\ lnres.writes <= LineBuf
       /\ ~lnres.died
       /\ Len(lnres.pts) = lnres.writes
       /\ lnres.pts[Len(lnres.pts)] = <<lnargs[3], lnargs[4]>>

\* ------------------------------------------------------------------------
\* Properties of get_slice_part
\* ------------------------------------------------------------------------

\* N = dstep / slice_width is a number of windows.
WholeSlices == gsp.dstep % gsp.slice_width = 0

\* The times of the windows yielded so far, and the two coefficients of the
\* last pass, which sum to 1 (dstep as numerators).
WindowTimes ==
    /\ gcount = gsp.i
    /\ gcount <= gsp.dstep \div gsp.slice_width
    /\ gcount = 1 => gsp.dat.tf = gsp.ta
    /\ gcount >= 2 => gsp.dat.tf = gprev.ti
    /\ gcount = gsp.dstep \div gsp.slice_width => gsp.dat.ti = gsp.tp
    /\ gcount >= 1 => gsp.coefai + gsp.coefpi = gsp.dstep

\* C9 as stated: for one interval [tp, ta] with N = dstep/slice_width,
\* get_slice_part yields exactly N windows in reverse chronological order:
\* the first has tf = ta, each next one has tf equal to the previous ti, the
\* last has ti = tp, and the two coefficients sum to 1 in every window.
C9_WindowsPartition == (WholeSlices /\ gcount >= 1) => WindowTimes

\* C9 amended: the same for an interval with at least one live parcel; with
\* no live parcel N windows are yielded as well, each with ti = tf = None.
C9_WindowsPartitionLive ==
    (WholeSlices /\ gcount >= 1) =>
       /\ gcount = gsp.i
       /\ gcount <= gsp.dstep \div gsp.slice_width
       /\ gsp.coefai + gsp.coefpi = gsp.dstep
       /\ IF gsp.empty_live
          THEN gsp.dat.ti = None /\ gsp.dat.tf = None
          ELSE WindowTimes /\ gsp.dat.ti < gsp.dat.tf

\* All the windows of an interval of at least three slices, with live
\* parcels, have been yielded.
C9_Witness ==
    /\ WholeSlices /\ ~gsp.empty_live
    /\ gsp.nb_slices >= 3 /\ gcount = gsp.nb_slices
    /\ gsp.dat.ti = gsp.tp /\ gsp.dat.tf = gprev.ti

\* The record of the parcel id in a snapshot.
RecOf(part, id) ==
    part.recs[CHOOSE k \in 1..Len(part.recs) : part.recs[k].idx_back = id]

\* The position at entry k of a window, as numerators over dstep.
StartAt(d, k) == <<d.xi[k], d.yi[k], d.pi[k], d.tempi[k]>>

EndAt(d, k) == <<d.xf[k], d.yf[k], d.pf[k], d.tempf[k]>>

\* The snapshot record r clamped to the box, as numerators over dstep.
Clamped(r, dstep) ==
    <<Clip(r.x, -10, 160) * dstep, Clip(r.y, 0, 50) * dstep,
      r.p * dstep, r.t * dstep>>

\* C10: the end point of the first window is the clamped snapshot value at
\* ta, the start point of the last window is the clamped snapshot value at
\* tp, and the end point of every other window is the start point of the
\* window yielded just before it.
C10_PathContinuous ==
    (WholeSlices /\ gcount >= 1) =>
       \A k \in 1..Len(gsp.dat.idx_back) :
          LET id == gsp.dat.idx_back[k]
          IN  /\ gcount = 1 =>
                   EndAt(gsp.dat, k) = Clamped(RecOf(gsp.part_a, id), gsp.dstep)
              /\ gcount = gsp.nb_slices =>
                   StartAt(gsp.dat, k) = Clamped(RecOf(gsp.part_p, id), gsp.dstep)
              /\ gcount >= 2 =>
                   /\ gprev.idx_back = gsp.dat.idx_back
                   /\ EndAt(gsp.dat, k) = StartAt(gprev, k)

\* The last window of an interval of at least three slices, for a parcel
\* that moved and whose position at tp is outside the box.
C10_Witness ==
    /\ WholeSlices /\ gsp.nb_slices >= 3 /\ gcount = gsp.nb_slices
    /\ \E k \in 1..Len(gsp.dat.idx_back) :
          /\ StartAt(gsp.dat, k) # EndAt(gsp.dat, k)
          /\ RecOf(gsp.part_p, gsp.dat.idx_back[k]).x > 160
          /\ gsp.dat.xi[k] = 160 * gsp.dstep

\* C11: every start and end position of every window yielded lies inside
\* the box, x in [-10, 160] and y in [0, 50], wherever the snapshots put the
\* parcel.
XInBox(v, dstep) == \A k \in 1..Len(v) : -10 * dstep <= v[k] /\ v[k] <= 160 * dstep

YInBox(v, dstep) == \A k \in 1..Len(v) : 0 <= v[k] /\ v[k] <= 50 * dstep

C11_WindowInBox ==
    (gcount >= 1 /\ gsp.dat.ti # None) =>
        /\ XInBox(gsp.dat.xi, gsp.dstep) /\ XInBox(gsp.dat.xf, gsp.dstep)
        /\ YInBox(gsp.dat.yi, gsp.dstep) /\ YInBox(gsp.dat.yf, gsp.dstep)
        /\ Len(gsp.dat.xi) = Len(gsp.dat.idx_back)
        /\ Len(gsp.dat.xf) = Len(gsp.dat.idx_back)
        /\ Len(gsp.dat.yi) = Len(gsp.dat.idx_back)
        /\ Len(gsp.dat.yf) = Len(gsp.dat.idx_back)

C11_Witness ==
    /\ gcount >= 2 /\ gsp.dat.ti # None
    /\ \E k \in 1..Len(gsp.dat.idx_back) :
          /\ RecOf(gsp.part_a, gsp.dat.idx_back[k]).x < -10
          /\ RecOf(gsp.part_p, gsp.dat.idx_back[k]).y > 50
          /\ gsp.nb_slices >= 2 /\ gcount = gsp.nb_slices
          /\ gsp.dat.yi[k] = 50 * gsp.dstep

\* C12: in an hour without live parcel every window yielded has
\* ti = tf = None, there are nb_slices of them, and the run loop passes each
\* one leaving flags, chi, ratchet, slots, accumulators and hit counters as
\* they were.
SentinelSliceSkipped ==
    (pc = "slice" /\ gsp.empty_live) =>
        /\ gsp'.dat.ti = None /\ gsp'.dat.tf = None
        /\ gsp'.i = gsp.i + 1 /\ islice' = islice + 1
        /\ pc' = IF gsp'.i = nb_slices THEN "age" ELSE "slice"
        /\ flag_source' = flag_source /\ chi' = chi /\ passed' = passed
        /\ src' = src /\ source' = source /\ pl' = pl
        /\ nhits' = nhits /\ nradada' = nradada

C12_EmptyHourSkipped == [][SentinelSliceSkipped]_vars

C12_Witness ==
    /\ pc = "age" /\ gsp.empty_live /\ gsp.i = nb_slices
    /\ gsp.dat.ti = None /\ gsp.dat.tf = None
    /\ \E i \in Ids : chi[i] > 0

\* C13: at every hour a parcel of the previous snapshot that is absent from
\* the snapshot just read and not DEAD when the hour starts is terminated as
\* crossed: it reaches the processing of crossed parcels not DEAD, and that
\* processing sets DEAD and CROSSED and writes its position, pressure and
\* temperature of the previous snapshot in slot 0.
Gone == {i \in Ids : i + IDX_ORGN \in IdsOf(partante) \ IdsOf(partpost)}

CrossedRecorded ==
    /\ pc = "deadborne" =>
          \A i \in Gone : ~Dead(flag_source, i) => ~Dead(flag_source', i)
    /\ pc = "exiter" =>
          \A i \in Gone : ~Dead(flag_source, i) =>
             LET r == RecOf(partante, i + IDX_ORGN)
             IN  /\ Dead(flag_source', i)
                 /\ BitAnd(flag_source'[i], I_CROSSED) # {}
                 /\ ~src'[0][i].nan
                 /\ src'[0][i].x = <<r.x, 1>> /\ src'[0][i].y = <<r.y, 1>>
                 /\ src'[0][i].p = <<r.p, 1>> /\ src'[0][i].t = <<r.t, 1>>

C13_CrossedRecorded == [][CrossedRecorded]_vars

\* The tests of the exit reason in their order, and the code of each.
ExitTests(r) ==
    <<r.y < 0 + 4, r.x < -10 + 4, r.y > 50 - 4, r.x > 160 - 4,
      r.p > highpcut - 150, r.p < lowpcut + 15, TRUE>>

ExitCodes == <<6, 3, 4, 5, 1, 2, 7>>

FirstMatch(r) ==
    ExitCodes[CHOOSE k \in 1..7 :
                 ExitTests(r)[k] /\ \A j \in 1..(k - 1) : ~ExitTests(r)[j]]

\* The bits 13 to 20 of a flag, moved down by 13: the exit code in binary.
CodeField(f) == {k - 13 : k \in {b \in f : 13 <= b /\ b < 21}}

\* C14: exiter gives each parcel it terminates one exit code, that of the
\* first test that matches in the order south (6), west (3), north (4),
\* east (5), high pressure (1), low pressure (2), none (7).
ExiterCodes ==
    (hcalls' # hcalls /\ hcalls'[Len(hcalls')][1] = "exiter") =>
        \A k \in 1..Len(hargs.recs) :
           LET r  == hargs.recs[k]
               i0 == r.idx_back - IDX_ORGN
           IN  ~Dead(flag_source, i0) =>
                  /\ Dead(flag_source', i0)
                  /\ CodeField(flag_source'[i0]) = Bits(FirstMatch(r))

C14_ExitCodeOrder == [][ExiterCodes]_vars

C14_Witness ==
    /\ hcalls # <<>> /\ hcalls[1] = <<"exiter", 2>>
    /\ hargs.recs[1].y < 4 /\ hargs.recs[1].x > 156
    /\ hargs.recs[1].p > highpcut - 150
    /\ CodeField(flag_source[0]) = Bits(6)

\* The parcels of the arguments that are not DEAD.
NotYetDead(recs, flag) ==
    {k \in 1..Len(recs) : ~Dead(flag, recs[k].idx_back - IDX_ORGN)}

\* C15: a call of exiter or radada leaves every field of a parcel that is
\* already DEAD as it was and counts only the parcels that were not DEAD;
\* a call with the arguments of an earlier call counts zero and changes
\* nothing, so that two calls leave the state of one.
HandlerOneShot ==
    hcalls' # hcalls =>
        LET n == hcalls'[Len(hcalls')][2]
        IN  /\ \A i \in Ids :
                  Dead(flag_source, i) =>
                     /\ flag_source'[i] = flag_source[i]
                     /\ \A k \in 0..5 : src'[k][i] = src[k][i]
                     /\ chi'[i] = chi[i] /\ passed'[i] = passed[i]
            /\ n = Cardinality(NotYetDead(hargs.recs, flag_source))
            /\ hcalls # <<>> =>
                  /\ n = 0
                  /\ flag_source' = flag_source /\ src' = src
                  /\ chi' = chi /\ passed' = passed
                  /\ nexits' = nexits /\ nradada' = nradada /\ nhits' = nhits

C15_HandlersOneShot == [][HandlerOneShot]_vars

C15_Witness ==
    /\ Len(hcalls) = 2
    /\ hcalls[1] = <<"radada", 1>> /\ hcalls[2] = <<"radada", 0>>
    /\ BitAnd(flag_source[0], I_OLD) # {}
    /\ BitAnd(flag_source[1], I_CROSSED) # {}

\* C16: the exit code a termination handler writes fits in the three bits
\* 13 to 15: besides I_DEAD and I_CROSSED a call sets no bit outside them.
CodeInField ==
    hcalls' # hcalls =>
        \A i \in Ids :
           (flag_source'[i] \ flag_source[i]) \subseteq
               ({13, 14, 15} \cup Bits(I_DEAD + I_CROSSED))

C16_CodeInThreeBits == [][CodeInField]_vars

\* The entries of the window d of parcels not DEAD with hyb above 100.
TooLow(d, hy, flag) ==
    {k \in 1..Len(d.idx_back) :
        hy[k] > 100 /\ ~Dead(flag, d.idx_back[k] - IDX_ORGN)}

\* C17: in the slice where the hybrid level of a live parcel is above 100
\* the parcel is terminated: DEAD and CROSSED set, a code that is none of
\* the codes 1 to 7 of exiter, slot 0 filled with the position, pressure and
\* temperature at the end of the slice, one more hit in nhits[0].
GroundedInSlice ==
    (pc = "slice" /\ pc' = "detrainer") =>
        LET d   == gsp'.dat
            low == TooLow(d, hyb', flag_source)
        IN  /\ \A k \in low :
                  LET i0 == d.idx_back[k] - IDX_ORGN
                  IN  /\ Dead(flag_source', i0)
                      /\ BitAnd(flag_source'[i0], I_CROSSED) # {}
                      /\ CodeField(flag_source'[i0]) # {}
                      /\ \A c \in 1..7 :
                            CodeField(flag_source'[i0]) # Bits(c)
                      /\ ~src'[0][i0].nan
                      /\ src'[0][i0].x = <<d.xf[k], gsp.dstep>>
                      /\ src'[0][i0].y = <<d.yf[k], gsp.dstep>>
                      /\ src'[0][i0].p = <<d.pf[k], gsp.dstep>>
                      /\ src'[0][i0].t = <<d.tempf[k], gsp.dstep>>
            /\ nhits'[0] = nhits[0] + Cardinality(low)

C17_GroundedInSlice == [][GroundedInSlice]_vars

C17_Witness ==
    /\ pc = "detrainer"
    /\ \E k \in 1..Len(gsp.dat.idx_back) :
          LET i0 == gsp.dat.idx_back[k] - IDX_ORGN
          IN  /\ hyb[k] > 100
              /\ gsp.dat.pf[k] # gsp.dat.pi[k]
              /\ CodeField(flag_source[i0]) = Bits(8)
              /\ src[0][i0].p = <<gsp.dat.pf[k], gsp.dstep>>
              /\ nhits[0] >= 1 /\ chi[i0] > 0

\* C18: a parcel whose hybrid level index in a slice is above 100 or below
\* 0 is terminated by the ground contact processing of that slice, so that
\* detrainer, in any slice, reads the field only at indices within 0..100.
C18_LevelsInRange ==
    pc = "detrainer" =>
        /\ \A k \in 1..Len(hyb) :
              (hyb[k] > 100 \/ hyb[k] < 0) =>
                  Dead(flag_source, gsp.dat.idx_back[k] - IDX_ORGN)
        /\ SampledLevels(gsp.dat, hyb, flag_source) \subseteq 0..100

\* The cells between the two ends of the entry k of the window d.
PathOf(d, k, dstep) ==
    line(Cell(d.xi[k], dstep, Lo1), Cell(d.yi[k], dstep, La1),
         Cell(d.xf[k], dstep, Lo1), Cell(d.yf[k], dstep, La1))

\* The mean of the detrainment over that path is at or above detr_offset.
MeetsFloor(d, hy, k, dstep) ==
    PathSum(hy[k], PathOf(d, k, dstep), 1)
        >= detr_offset * Len(PathOf(d, k, dstep))

\* A parcel that was never eroded.
Untouched(c, ps, flag, srcs, i) ==
    c[i] = 0 =>
        /\ ps[i] = 10 /\ BitAnd(flag[i], I_HIT) = {}
        /\ \A m \in 1..5 : srcs[m][i].nan

\* C19: detrainer erodes a live parcel of the window exactly when the mean
\* detrainment over its path is at or above detr_offset; below it, the
\* parcel keeps its chi, ratchet, flag and slots, and a call that erodes no
\* parcel leaves both accumulators as they were; a parcel with chi = 1 has
\* ratchet 10, no slot 1 to 5 and no HIT.
ErodedAtFloorOnly ==
    /\ pc = "detrainer" =>
          LET d    == gsp.dat
              live == {k \in 1..Len(d.idx_back) :
                          ~Dead(flag_source, d.idx_back[k] - IDX_ORGN)}
          IN  /\ \A k \in live :
                    LET i0 == d.idx_back[k] - IDX_ORGN
                    IN  /\ chi'[i0] > chi[i0] <=> MeetsFloor(d, hyb, k, gsp.dstep)
                        /\ ~MeetsFloor(d, hyb, k, gsp.dstep) =>
                              /\ chi'[i0] = chi[i0]
                              /\ passed'[i0] = passed[i0]
                              /\ flag_source'[i0] = flag_source[i0]
                              /\ \A m \in 0..5 : src'[m][i0] = src[m][i0]
              /\ (\A k \in live : ~MeetsFloor(d, hyb, k, gsp.dstep)) =>
                    source' = source /\ pl' = pl /\ nhits' = nhits
    /\ \A i \in Ids : Untouched(chi', passed', flag_source', src', i)

C19_ErodedAtFloorOnly == [][ErodedAtFloorOnly]_vars

C19_Witness ==
    /\ pc \in {"slice", "age"} /\ islice >= 1 /\ gsp.dat.ti # None
    /\ \E k1, k2 \in 1..Len(gsp.dat.idx_back) :
          LET i1 == gsp.dat.idx_back[k1] - IDX_ORGN
              i2 == gsp.dat.idx_back[k2] - IDX_ORGN
          IN  /\ ~Dead(flag_source, i1) /\ ~Dead(flag_source, i2)
              /\ ~MeetsFloor(gsp.dat, hyb, k1, gsp.dstep)
              /\ PathSum(hyb[k1], PathOf(gsp.dat, k1, gsp.dstep), 1) # 0
              /\ chi[i1] = 0 /\ passed[i1] = 10
              /\ PathSum(hyb[k2], PathOf(gsp.dat, k2, gsp.dstep), 1)
                    = detr_offset * Len(PathOf(gsp.dat, k2, gsp.dstep))
              /\ chi[i2] > 0

\* The rung of a value of chi: 10 from 0.9 up, 9 in [0.7, 0.9), 7 in
\* [0.5, 0.7), 5 in [0.3, 0.5), 3 in [0.1, 0.3), 1 below 0.1.
RungOf(c) ==
    IF ~ChiBelow(c, 1) THEN 10
    ELSE IF ~ChiBelow(c, 2) THEN 9
    ELSE IF ~ChiBelow(c, 3) THEN 7
    ELSE IF ~ChiBelow(c, 4) THEN 5
    ELSE IF ~ChiBelow(c, 5) THEN 3
    ELSE 1

\* C20: between two calls of detrainer the ratchet of every parcel is the
\* rung of its chi, however many thresholds the last erosion crossed.
C20_RatchetFollowsChi == \A i \in Ids : passed[i] = RungOf(chi[i])

C20_Witness ==
    \E i \in Ids :
       /\ passed[i] <= 5
       /\ ~src[1][i].nan
       /\ src[1][i] = src[2][i] /\ src[2][i] = src[3][i]
       /\ \E j \in Ids : passed[j] = 9

Hit(flag, i) == BitAnd(flag[i], I_HIT) # {}

\* C21: HIT is set exactly on the parcels whose ratchet is below 10; the
\* step that sets HIT is the one that takes the ratchet from 10 and it does
\* not set DEAD; a parcel HIT and not DEAD is eroded again by detrainer when
\* the detrainment over its path is at or above the floor.
HitAtFirstRung ==
    /\ \A i \in Ids :
          /\ Hit(flag_source', i) <=> passed'[i] < 10
          /\ (Hit(flag_source', i) /\ ~Hit(flag_source, i)) =>
                /\ pc = "detrainer" /\ passed[i] = 10
                /\ Dead(flag_source', i) = Dead(flag_source, i)
    /\ pc = "detrainer" =>
          \A k \in 1..Len(gsp.dat.idx_back) :
             LET i0 == gsp.dat.idx_back[k] - IDX_ORGN
             IN  (Hit(flag_source, i0) /\ ~Dead(flag_source, i0)
                    /\ MeetsFloor(gsp.dat, hyb, k, gsp.dstep)) =>
                      chi'[i0] > chi[i0]

C21_HitAtFirstRung == [][HitAtFirstRung]_vars

C21_Witness ==
    \E i \in Ids :
       /\ Hit(flag_source, i) /\ ~Dead(flag_source, i)
       /\ \E m \in 1..4 : ~src[m + 1][i].nan /\ src[m][i] # src[m + 1][i]

\* The number of rungs passed at a value of the ratchet.
RungsPassed(p) ==
    CASE p = 10 -> 0 [] p = 9 -> 1 [] p = 7 -> 2 [] p = 5 -> 3 [] p = 3 -> 4
      [] p = 1 -> 5

\* C22: slot j of 1..5 is filled exactly when the ratchet has passed rung
\* j, so the filled slots are 1..k, and a filled slot is never written
\* again.
SlotsOrdered ==
    \A i \in Ids :
       /\ passed'[i] \in {10, 9, 7, 5, 3, 1}
       /\ \A j \in 1..5 :
             /\ ~src'[j][i].nan <=> j <= RungsPassed(passed'[i])
             /\ ~src[j][i].nan => src'[j][i] = src[j][i]
       /\ \A j \in 1..4 : ~src'[j + 1][i].nan => ~src'[j][i].nan

C22_SlotsOrdered == [][SlotsOrdered]_vars

C22_Witness ==
    /\ \E i \in Ids :
          /\ passed[i] = 1 /\ \A j \in 1..5 : ~src[j][i].nan
          /\ src[1][i] # src[5][i]
    /\ \E i \in Ids : passed[i] \in {9, 7, 5, 3} /\ ~Dead(flag_source, i)

Dborne(flag, i) == BitAnd(flag[i], I_DBORNE) # {}

\* The theoretical range of the hour: the parcels from the first id not
\* yet taken in by an earlier hour up to the count released once the
\* quantum of this hour is added.
TheorIds ==
    {i \in Ids : idx1 <= i + IDX_ORGN /\ i < numpart_s + granule_quanta}

MissingIds == {i \in TheorIds : i + IDX_ORGN \notin IdsOf(partpost)}

\* C23: the parcels the detection of deadborne parcels flags at an hour are
\* exactly those of the theoretical range of that hour that the snapshot
\* just read does not hold; each gets DEAD and DBORNE and its launch position with age
\* 0 in slot 0, and is flagged once in the run.
DeadborneExact ==
    /\ (pc = "deadborne" /\ numpart_s < numpart) =>
          /\ \A i \in Ids :
                (Dborne(flag_source', i) /\ ~Dborne(flag_source, i))
                    <=> i \in MissingIds
          /\ \A i \in MissingIds :
                /\ ~Dead(flag_source, i) /\ Dead(flag_source', i)
                /\ \A j \in Ids : Dborne(flag_source, j) => idx1 > j + IDX_ORGN
                /\ src'[0][i] = Slot(<<part0(i).x, 1>>, <<part0(i).y, 1>>,
                                     <<part0(i).p, 1>>, <<part0(i).t, 1>>,
                                     <<0, 1>>)
          /\ ndborne' = ndborne + Cardinality(MissingIds)
    /\ ~(pc = "deadborne" /\ numpart_s < numpart) =>
          \A i \in Ids : Dborne(flag_source', i) = Dborne(flag_source, i)

FlaggedUnobserved ==
    \A i \in Ids :
       (Dborne(flag_source', i) /\ ~Dborne(flag_source, i)) =>
           \A h \in DOMAIN partStep : i + IDX_ORGN \notin IdsOf(partStep[h])

C24_DeadborneNeverObserved == [][FlaggedUnobserved]_vars

\* C25: every index the tables of the parcels are read or written with is
\* in [0, numpart): those of the ids of the snapshots, and those of the
\* theoretical range the detection of deadborne parcels builds once
\* numpart_s is advanced by a quantum; no access fails.
C25_IndicesInTable ==
    /\ \A h \in DOMAIN partStep :
          \A id \in IdsOf(partStep[h]) :
             0 <= id - IDX_ORGN /\ id - IDX_ORGN < numpart_t
    /\ (pc = "deadborne" /\ numpart_s < numpart_t) =>
          \A id \in idx1 .. (numpart_s + granule_quanta + IDX_ORGN - 1) :
             0 <= id - IDX_ORGN /\ id - IDX_ORGN < numpart_t
    /\ pc # "error"

\* C26: the age sweep that ends an hour flags DEAD and OLD every parcel of
\* the previous snapshot that was not DEAD and whose age, launch time minus
\* the time of that snapshot, is above the limit, and writes its position
\* in that snapshot in slot 0.
OldSwept ==
    pc = "age" =>
        \A k \in 1..Len(partante.recs) :
           LET r  == partante.recs[k]
               i0 == r.idx_back - IDX_ORGN
           IN  (~Dead(flag_source, i0)
                  /\ ir_start(i0) - partante.itime > age_limit * 3600) =>
                   /\ Dead(flag_source', i0)
                   /\ BitAnd(flag_source'[i0], I_OLD) # {}
                   /\ ~src'[0][i0].nan
                   /\ src'[0][i0].x = <<r.x, 1>> /\ src'[0][i0].y = <<r.y, 1>>
                   /\ src'[0][i0].p = <<r.p, 1>> /\ src'[0][i0].t = <<r.t, 1>>

C26_OldSwept == [][OldSwept]_vars

\* The ids of the records of a snapshot that a mask selects.
SelIds(part, m) ==
    {part.recs[k].idx_back : k \in {j \in 1..Len(part.recs) : m[j]}}

SeqIds(q) == {q[k] : k \in 1..Len(q)}

\* C27: the parcels put in the windows of an hour are those of both
\* snapshots that are not DEAD once the deadborne and the crossed parcels
\* of the hour are processed; the selection in the previous snapshot and
\* the selection in the new one hold the same ids.
LiveIsKeptNotDead ==
    /\ pc = "exiter" =>
          LET both == {id \in IdsOf(partante) \cap IdsOf(partpost) :
                          ~Dead(flag_source', id - IDX_ORGN)}
          IN  /\ MaskSum(live_a') = Cardinality(both)
              /\ MaskSum(live_p') = Cardinality(both)
              /\ both # {} =>
                    /\ SelIds(partante, live_a') = both
                    /\ SelIds(partpost, live_p') = both
              /\ gsp'.live_a = live_a' /\ gsp'.live_p = live_p'
              /\ gsp'.part_a = partante /\ gsp'.part_p = partpost
    /\ pc = "slice" =>
          /\ Len(gsp'.dat.idx_back) = MaskSum(live_a)
          /\ MaskSum(live_a) > 0 =>
                SeqIds(gsp'.dat.idx_back) = SelIds(partante, live_a)

MixAt(g, id) ==
    LET a == RecOf(g.part_a, id)
        p == RecOf(g.part_p, id)
    IN  <<Clip(g.coefai * a.x + g.coefpi * p.x, -10 * g.dstep, 160 * g.dstep),
          Clip(g.coefai * a.y + g.coefpi * p.y, 0, 50 * g.dstep),
          g.coefai * a.p + g.coefpi * p.p,
          g.coefai * a.t + g.coefpi * p.t>>

C28_SameParcelCombined ==
    gcount >= 1 =>
       \A k \in 1..Len(gsp.dat.idx_back) :
          LET id == gsp.dat.idx_back[k]
          IN  /\ id \in IdsOf(gsp.part_a) \cap IdsOf(gsp.part_p)
              /\ gcount = 1 =>
                   EndAt(gsp.dat, k) = Clamped(RecOf(gsp.part_a, id), gsp.dstep)
              /\ StartAt(gsp.dat, k) =
                   IF gcount # 1 /\ gcount = gsp.nb_slices
                   THEN Clamped(RecOf(gsp.part_p, id), gsp.dstep)
                   ELSE MixAt(gsp, id)

\* C29: with no grid shift, the cell of source that receives the mass a
\* parcel loses in a slice is one of the cells line() returned for the path
\* of that parcel in that slice, no other cell of source changes, and pl
\* changes only at the region mask gives to such a cell.
OnPath(c, ll) == \E j \in 1..Len(ll) : c = <<ll[j][2], ll[j][1]>>

MidOf(d, k, dstep) ==
    MidCell(Cell(d.xi[k], dstep, Lo1), Cell(d.yi[k], dstep, La1),
            Cell(d.xf[k], dstep, Lo1), Cell(d.yf[k], dstep, La1))

DepositOnPath ==
    pc = "detrainer" =>
       LET d      == gsp.dat
           eroded == {k \in 1..Len(d.idx_back) :
                         /\ ~Dead(flag_source, d.idx_back[k] - IDX_ORGN)
                         /\ MeetsFloor(d, hyb, k, gsp.dstep)}
       IN  /\ \A k \in eroded :
                 OnPath(MidOf(d, k, gsp.dstep), PathOf(d, k, gsp.dstep))
           /\ \A c \in DOMAIN source' :
                 (c \notin DOMAIN source \/ source'[c] # source[c]) =>
                    \E k \in eroded : OnPath(c, PathOf(d, k, gsp.dstep))
           /\ \A r \in DOMAIN pl :
                 pl'[r] # pl[r] =>
                    \E k \in eroded :
                       LET c == MidOf(d, k, gsp.dstep)
                       IN  r = mask(c[1], c[2])

\* In the run loop of the model the two ends of every slice are an even
\* number of cells apart in both axes, and every step keeps DepositOnPath.
DepositOnPathInRun == [][DepositOnPath]_vars

\* C29: for every pair of cells of the grid less than LineBuf apart, the
\* cell detrainer deposits in for a path between them, with no grid shift,
\* is one of the cells line() returns for that path.
C29_DepositCellOnPath ==
    (/\ LineCalled /\ ~lnres.died
     /\ InGrid(lnargs[1], lnargs[2]) /\ InGrid(lnargs[3], lnargs[4])
     /\ Max2(Abs(lnargs[3] - lnargs[1]), Abs(lnargs[4] - lnargs[2])) < LineBuf) =>
       OnPath(MidCell(lnargs[1], lnargs[2], lnargs[3], lnargs[4]), lnres.pts)

\* The parcel i has crossed the five rungs.
AllRungs(i) == passed[i] = 1 /\ \A m \in 1..5 : ~src[m][i].nan

\* What one erosion at the rate detr_offset adds to -log(chi).
FloorStep == (detr_offset * EDen) \div 100

\* The parcel i, of the first snapshot, has been eroded in every slice of
\* the run at the rate detr_offset: every erosion adds FloorStep or more,
\* so a sum of FloorStep times the number of slices of the run is made of
\* one erosion of FloorStep in each slice.
FedAtFloorThroughout(i) ==
    /\ i + IDX_ORGN \in IdsOf(Snapshot0)
    /\ ~Dead(flag_source, i)
    /\ chi[i] = FloorStep * (nb_slices * MaxHour)

\* The last slice of the run has been processed.
LastSliceDone == pc = "age" /\ hour + step > hmax

\* C30 as stated: after the last slice of the run a parcel that stayed live
\* and met a detrainment at or above the floor in every slice has ratchet 1
\* and its slots 1 to 5 filled.
C30_FloorReachesLastRung ==
    LastSliceDone =>
       \A i \in Ids : FedAtFloorThroughout(i) => AllRungs(i)

\* C30 amended: a parcel has ratchet 1 exactly when its chi is below 0.1,
\* that is when the detrainment it met sums to more than ln(10)/3600, and
\* then its slots 1 to 5 are filled; every erosion adds at least
\* 3600*detr_offset to -log(chi), and the mass in each accumulator is the
\* sum over the parcels of 1 - chi.
C30_LastRungWhenChiLow ==
    /\ \A i \in Ids :
          /\ passed[i] = 1 <=> ChiBelow(chi[i], 5)
          /\ passed[i] = 1 => AllRungs(i)
          /\ chi[i] # 0 => chi[i] >= FloorStep
    /\ FsSum(source, DOMAIN source) = Eroded
    /\ FsSum(pl, DOMAIN pl) = Eroded

\* The end of the last slice of a run in which one parcel, eroded at a high
\* rate in the two slices it went through, has crossed the five rungs and
\* another, eroded at the floor rate in every slice of the run, has crossed
\* none.
C30_Witness ==
    /\ LastSliceDone
    /\ \E i, j \in Ids :
          /\ AllRungs(i) /\ ~Dead(flag_source, i)
          /\ FedAtFloorThroughout(j) /\ passed[j] = 10

\* C31: at most two snapshots are held at every point of the run loop, and
\* from the reading of the snapshot of an hour to the end of the body of
\* that hour the snapshots held are those of hour - step and hour, each
\* with the time of its hour.
C31_TwoSnapshots ==
    /\ Cardinality(DOMAIN partStep) <= 2
    /\ pc \in {"deadborne", "exiter", "slice", "detrainer", "age"} =>
          /\ DOMAIN partStep = {hour - step, hour}
          /\ \A h \in DOMAIN partStep : partStep[h].itime = -3600 * h

\* The second hour: the snapshot of the launch has been deleted.
C31_Witness ==
    /\ pc = "age" /\ hour = 2 * step
    /\ DOMAIN partStep = {step, 2 * step}
    /\ Len(partStep[step].recs) > 0

\* The parcels of the table with the bits b set in their flag.
Flagged(b) == {i \in DOMAIN flag_source : BitAnd(flag_source[i], b) # {}}

\* The parcels terminated by radada: the code 8 << 13.
GroundKilled == Flagged(8 * 8192)

\* C32: the counters of the run agree with the parcel table: nhits[k],
\* k = 1..5, is the number of parcels whose slot k is filled, nhits[0] the
\* number of parcels terminated by ground contact, nexits + nhits[0] the
\* number of parcels with CROSSED, nold the number with OLD and ndborne the
\* number with DEADBORNE.
C32_CountersAgree ==
    /\ \A k \in 1..5 :
          nhits[k] = Cardinality({i \in DOMAIN flag_source : ~src[k][i].nan})
    /\ nhits[0] = Cardinality(GroundKilled)
    /\ nradada = nhits[0]
    /\ nexits + nhits[0] = Cardinality(Flagged(I_CROSSED))
    /\ nold = Cardinality(Flagged(I_OLD))
    /\ ndborne = Cardinality(Flagged(I_DBORNE))

\* The end of a run with a parcel of each kind: crossed, grounded, old,
\* deadborne, and one that was hit.
C32_Witness ==
    /\ pc = "done"
    /\ nexits >= 1 /\ nhits[0] >= 1 /\ nold >= 1 /\ ndborne >= 1
    /\ nhits[1] >= 1

\* The orders in which the n parcels of a window can be processed.
Orders(n) ==
    {f \in [1..n -> 1..n] : \A j, k \in 1..n : f[j] = f[k] => j = k}

\* The loop body of detrainer applied to the parcels of the window d in
\* the order f, from the j-th on.
RECURSIVE DetrainIn(_, _, _, _, _, _)
DetrainIn(st, d, hy, f, j, dstep) ==
    IF j > Len(d.idx_back) THEN st
    ELSE DetrainIn(DetrainOne(st, d, hy, f[j], dstep), d, hy, f, j + 1, dstep)

\* C33: whatever the order in which the parcels of the window are
\* processed, with every increment of an accumulator applied whole, the
\* call of detrainer leaves the same flags, chi, ratchets, slots, hit
\* counters and accumulators; the mass of two parcels that deposit into the
\* same cell is counted for both.
C33_OrderIndependent ==
    pc = "detrainer" =>
       \A f \in Orders(Len(gsp.dat.idx_back)) :
          DetrainIn([flag |-> flag_source, chi |-> chi, passed |-> passed,
                     src |-> src, source |-> source, pl |-> pl,
                     nhits |-> [k \in 0..5 |-> 0]],
                    gsp.dat, hyb, f, 1, gsp.dstep)
            = detrainer(gsp.dat, hyb, gsp.dstep, flag_source, chi, passed,
                        src, source, pl)

\* A call that eroded the two parcels of the window into the same cell,
\* that cell holding the mass lost by both.
C33_Witness ==
    /\ pc # "detrainer" /\ islice = 1
    /\ chi[0] > 0 /\ chi[1] > 0 /\ chi[0] # chi[1]
    /\ Cardinality(DOMAIN source) = 1
    /\ FsSum(source, DOMAIN source) = Eroded

\* The files written so far.
Written == {saves[k].file : k \in {j \in 1..Len(saves) : saves[j].ok}}

\* C34: the two saves are attempted one after the other whatever the first
\* one did, a save that fails does not stop main(), which returns after the
\* second attempt, and nothing is saved before the loop on the hours has
\* ended.
C34_SavesIndependent ==
    /\ pc \notin {"save2", "end"} => saves = <<>>
    /\ pc = "save2" => Len(saves) = 1 /\ saves[1].file = "blosc"
    /\ pc = "end" =>
          /\ Len(saves) = 2
          /\ saves[1].file = "blosc" /\ saves[2].file = "zlib"
          /\ hour > hmax

\* The return of main() after the first save failed and the second one
\* succeeded.
C34_Witness ==
    /\ pc = "end"
    /\ ~saves[1].ok /\ saves[2].ok
    /\ Written = {"zlib"}

\* The parcel state one hour hands to the next.
Handed == <<flag_source, chi, passed, src, source, pl>>

\* C35: every step of the run follows the order of the loop body: the
\* snapshot is read, then the deadborne parcels are flagged, then exiter
\* runs, then the nb_slices windows are requested one by one in the order
\* the generator emits them, each one skipped when empty and otherwise
\* handed to radada and then to detrainer, then the age limit is swept
\* once and the hour goes up by step; reading the next snapshot finds the
\* flags, chi and ratchets as the sweep left them.
StepOrder ==
    /\ hour' >= hour
    /\ pc = "read" =>
          /\ pc' = "deadborne" /\ hour' = hour /\ Handed' = Handed
    /\ pc = "deadborne" => pc' = "exiter" /\ hour' = hour
    /\ pc = "exiter" =>
          /\ pc' = "slice" /\ hour' = hour
          /\ islice' = 0 /\ gsp'.i = 0
          /\ gsp'.part_a = partante /\ gsp'.part_p = partpost
    /\ pc = "slice" =>
          /\ hour' = hour /\ islice < nb_slices
          /\ gsp'.i = islice + 1
          /\ gsp'.dat.ti # None =>
                /\ gsp'.dat.tf = gsp.ta - islice * slice_width
                /\ pc' = "detrainer" /\ islice' = islice
                /\ chi' = chi /\ passed' = passed /\ source' = source
          /\ gsp'.dat.ti = None =>
                /\ islice' = islice + 1 /\ Handed' = Handed
                /\ pc' = IF islice' < nb_slices THEN "slice" ELSE "age"
    /\ pc = "detrainer" =>
          /\ hour' = hour /\ gsp' = gsp /\ islice' = islice + 1
          /\ pc' = IF islice' < nb_slices THEN "slice" ELSE "age"
    /\ pc = "age" =>
          /\ islice = nb_slices
          /\ hour' = hour + step
          /\ pc' = IF hour' <= hmax THEN "read" ELSE "done"
          /\ chi' = chi /\ passed' = passed

C35_StepOrder == [][StepOrder]_vars

\* The end of a run in which parcels crossed, one was grounded and one
\* was hit.
C35_Witness ==
    /\ pc = "done" /\ hour = hmax + step
    /\ nhits[0] >= 1 /\ nhits[1] >= 1 /\ nexits >= 1

\* C36: the time attached to the k-th window yielded (k = 0 first) is the
\* time of its start ti, the time of the snapshot at ta less k + 1 slice
\* widths, between the times of the two snapshots.
C36_WindowTime ==
    gcount >= 1 =>
       /\ gsp.dat.itime = gsp.part_a.itime - gcount * gsp.slice_width * 3600
       /\ gsp.part_p.itime <= gsp.dat.itime
       /\ gsp.dat.itime <= gsp.part_a.itime

\* The three bits 13 to 15 of the flag f: the exit-reason code.
ExitField(f) == {b \in f : 13 <= b /\ b <= 15}

\* A parcel that is DEAD has one reason and a parcel that is not has none;
\* code(f) is not zero exactly when f has CROSSED.
ReasonAndCode(code(_)) ==
    \A i \in DOMAIN flag_source :
       LET f == flag_source[i]
       IN  /\ Dead(flag_source, i) => Cardinality(Reasons(f)) = 1
           /\ ~Dead(flag_source, i) => Reasons(f) = {}
           /\ code(f) # {} <=> BitAnd(f, I_CROSSED) # {}

\* With the code read on the bits 13 to 20, where radada writes its 8.
ReasonAndWideCode == ReasonAndCode(CodeField)

\* C37: a parcel with DEAD has exactly one of CROSSED, OLD, DEADBORNE, a
\* parcel without DEAD has none of them, and the exit-reason code of a
\* parcel is not zero exactly when the parcel has CROSSED.
C37_OneReasonAndCode == ReasonAndCode(ExitField)

\* The slots 1 to 5 of the parcel i that are filled.
Filled(i) == {k \in 1..5 : ~src[k][i].nan}

\* The age of slot 0 is in seconds, as the ages of the slots 1 to 5 are.
InSeconds(a) == a[2] = 1

\* The ages of the filled slots 1 to 5 do not go down with the slot index.
AgesOrdered ==
    \A i \in DOMAIN flag_source :
       \A k, m \in Filled(i) : k <= m => src[k][i].age[1] <= src[m][i].age[1]

\* C38: the ages archived in the filled slots 1 to 5 of a parcel do not
\* decrease with the slot index, and the age archived in slot 0 of a parcel
\* terminated by exit, ground contact or age limit is in the same unit and
\* not smaller than any of them.
C38_AgesOrdered ==
    /\ AgesOrdered
    /\ \A i \in DOMAIN flag_source :
          BitAnd(flag_source[i], I_CROSSED + I_OLD) # {} =>
             /\ InSeconds(src[0][i].age)
             /\ \A k \in Filled(i) : src[k][i].age[1] <= src[0][i].age[1]

\* The same with the parcels terminated by the age limit left out.
AgesOrderedButOld ==
    /\ AgesOrdered
    /\ \A i \in DOMAIN flag_source :
          BitAnd(flag_source[i], I_CROSSED) # {} =>
             /\ InSeconds(src[0][i].age)
             /\ \A k \in Filled(i) : src[k][i].age[1] <= src[0][i].age[1]

\* Steps of one pass of the loop on the hours: the reading, the deadborne
\* parcels, exiter, two per slice, the age limit.
HourLen == 4 + 2 * nb_slices

\* Steps main() has left: those of the hours not begun, those left of the
\* hour at hand, and the two saves.
Rank ==
    LET pos == CASE pc = "read" -> 0
                 [] pc = "deadborne" -> 1
                 [] pc = "exiter" -> 2
                 [] pc = "slice" -> 3 + 2 * islice
                 [] pc = "detrainer" -> 4 + 2 * islice
                 [] pc = "age" -> 3 + 2 * nb_slices
                 [] OTHER -> 0
    IN  CASE pc = "end" -> 0
          [] pc = "error" -> 0
          [] pc = "save2" -> 1
          [] pc = "done" -> 2
          [] OTHER -> 3 + ((hmax - hour) \div step) * HourLen + (HourLen - pos)

\* Where main() stands between two steps.
LoopBounds ==
    /\ Rank >= 0
    /\ pc # "error"
    /\ hour % step = 0
    /\ pc \in {"read", "deadborne", "exiter", "slice", "detrainer", "age"} =>
          hour \in step..hmax
    /\ pc \in {"slice", "detrainer"} =>
          /\ islice = gsp.i - (IF pc = "detrainer" THEN 1 ELSE 0)
          /\ islice < nb_slices
          /\ gsp.nb_slices >= nb_slices
    /\ pc = "slice" => gsp.i < gsp.nb_slices
    /\ pc = "age" => islice = nb_slices /\ gsp.i = nb_slices
    /\ pc \in {"done", "save2", "end"} => hour = hmax + step

\* C39: the run loop terminates: every step of main() brings it closer to
\* its return, it goes through exactly hmax/step hours, in each hour it
\* requests exactly nb_slices windows from a fresh generator that still
\* has one to yield at every request, and the output stage is entered with
\* hour past hmax.
C39_LoopTerminates == []LoopBounds /\ [][Rank' < Rank]_vars

\* The return of main() after the last hour and the two saves.
C39_Witness ==
    /\ pc = "end" /\ hour = hmax + step
    /\ islice = nb_slices /\ gsp.i = gsp.nb_slices
    /\ saves[1].ok /\ saves[2].ok

\* The reanalysis of a date cannot be read: one of its files does not
\* open, or UDR has another number of records than T.
Unreadable(f) ==
    \/ ~f.en
    \/ ~f.di
    \/ f.nT > 0 /\ f.nUDR > 0 /\ f.nUDR # f.nT

\* What radada and detrainer write.
Mutated == <<flag_source, chi, passed, src, source, pl, nhits, nradada>>

\* A step of main(): the step that reads an unreadable reanalysis for a
\* window ends main() and writes nothing, and nothing follows the end.
AbortsInSlice ==
    /\ pc # "error"
    /\ (pc = "slice" /\ pc' \in {"detrainer", "error"}
          /\ Unreadable(datrean'.files)) =>
          /\ pc' = "error"
          /\ datrean'.dat.raised
          /\ Mutated' = Mutated
          /\ saves' = <<>>

\* C40: when a reanalysis file of a slice cannot be opened, or the number
\* of records of UDR is not that of T, main() ends in that slice with the
\* parcels and the accumulators as the slice found them, neither radada
\* nor detrainer having run for it, and no result file is ever written.
C40_AbortBeforeDetrainer ==
    [](pc = "error" => saves = <<>>) /\ [][AbortsInSlice]_vars

\* main() ended in the last hour by an UDR of another number of records
\* than T, after parcels were hit in the slices before.
C40_Witness ==
    /\ pc = "error" /\ hour = hmax
    /\ datrean.files.en /\ datrean.files.di
    /\ datrean.files.nT > 0 /\ datrean.files.nUDR > 0
    /\ datrean.files.nUDR # datrean.files.nT
    /\ nhits[1] >= 1
    /\ saves = <<>>

\* main() ended in its first window by an EN file that does not open.
C40_WitnessNoFile ==
    /\ pc = "error" /\ hour = step /\ islice = 0
    /\ ~datrean.files.en

====
